---- MODULE Spec2Model ----
(***************************************************************************)
(* Model of the scripts of sam-gov-to-google-sheets:                       *)
(*   scripts/la/la_run.py  (CEQAnet Advanced Search + Recent fallback)     *)
(*   scripts/tx/tx_run.py  (Socrata paging)                                *)
(*   scripts/nyc/nyc_run.py (job filings, infer_naics)                     *)
(*   main.py, ddg_fallback.py, scripts/ddg_fallback.py (website            *)
(*   enrichment of the Companies_Enrichment tab)                           *)
(* Texts are sequences of one-character strings so that strip(), lower()   *)
(* and substring tests are computed, not assumed.                          *)
(***************************************************************************)
EXTENDS Integers, Sequences, FiniteSets, TLC

VARIABLES
    \* ---- parse_csv_bytes (la_run.py:111-117)
    payload,      \* download_bytes
    cpc,          \* "call" | "returned" | "raised"
    records,      \* the list parse_csv_bytes returned
    \* ---- _select_by_row_text (la_run.py:295-317)
    sOptions,     \* the <option> elements of the select, in document order
    sWanted,      \* option_text
    spc,          \* "exact" | "fallback" | "done"
    sExact,       \* outcome of the first try block: "pending"|"ok"|"failed"
    sLog,         \* the select_option calls made, in order
    sResult,      \* the value returned
    \* ---- la_run.main and ceqanet_download_csv_for_range_and_doc_type
    cfg,          \* the environment settings (MAX_NEW, ENRICH_DETAILS, ...)
    pc,           \* position of main
    dtIdx,        \* index into DOC_TYPES of the acquisition in progress
    urlIdx,       \* index into advanced_url_candidates
    maint,        \* a "Service unavailable" page was seen
    gotoAfterMaint, \* an Advanced Search page.goto was made after maint
    acqLog,       \* per document type: the form steps taken, [step, ok]
    acqState,     \* per document type: "none"|"running"|"ok"|<error>
    acqOptions,   \* per document type: options of the Document Type select
    csv_bytes,    \* the bytes of the last download
    all_rows,
    any_results_url,
    advanced_ok,
    err,          \* the exception caught at line 666, "" when none
    existing_ids,
    rows_to_append,
    appended,
    rIdx,         \* position of the loop over all_rows (line 681)
    detail_used,
    sheet,        \* rows appended to the worksheet by this run
    pageno,       \* pages scanned by collect_detail_urls_from_recent
    detail_urls,
    uIdx,         \* position of the loop over detail_urls (line 836)
    visited,
    \* ---- tx_run.fetch_permits (tx_run.py:262-291)
    txcfg,        \* MAX_NEW and PAGE_SIZE of tx_run
    tpc,          \* "request" | "returned" | "raised"
    out_len,      \* len(out)
    offset,
    batch_len,    \* len(batch) of the last answer
    txRequests,   \* socrata_get calls made
    \* ---- main() of main.py, ddg_fallback.py, scripts/ddg_fallback.py
    script,       \* which of the three scripts runs
    BATCH_SIZE,
    MIN_ACCEPT_SCORE,
    blacklist_rules, \* exact_domains, contains_patterns of Blacklist_Rules
    values,       \* ws.get_values(...): the header row and the data rows
    row_i,        \* i of "for i in range(1, len(values))"
    epc,          \* "start"|"loop"|"ddg"|"write"|"done"|"failed"
    updates,
    processed,
    calls,        \* the SAM and DuckDuckGo requests made, in order
    worksheet,    \* the cells of the tab
    wrote,        \* ws.batch_update was applied
    \* ---- choose_best_candidate (ddg_fallback.py:317-364)
    ch_hrefs,     \* hrefs
    ch_company,   \* company
    ch_rules,     \* exact_domains, contains_patterns
    ch_min,       \* MIN_ACCEPT_SCORE
    ch_top,       \* candidates[:6] after the sort of line 350
    ch_flagged,   \* top candidates whose homepage check returned is_bad
    ch_result,    \* the value returned
    chpc,         \* "call" | "returned"
    \* ---- nyc_run.main (nyc_run.py:494-733)
    nyc_max_pages,      \* max_pages (NYC_MAX_PAGES)
    nyc_existing_ids,   \* existing_ids
    permits_by_job,
    nyc_page,           \* page of the loop of line 567
    nyc_jobs,           \* the jobs of the page not yet looked at
    nyc_rows_to_append, \* rows_to_append
    c_with_award_id,
    c_new_not_dupe,
    nyc_sheet,          \* rows appended to the worksheet by this run
    npc,                \* "pull"|"jobs"|"write"|"done"|"failed"
    \* ---- infer_naics (nyc_run.py:119-144)
    nj_job,       \* job
    nj_permit,    \* permit
    nj_naics,     \* the value returned
    njpc,         \* "call" | "returned"
    \* ---- parse_date_flexible (la_run.py:138-169)
    pd_s,         \* s
    pd_result,    \* the date returned, None, or the ValueError raised
    pdpc          \* "call" | "returned" | "raised"

csvVars == << payload, cpc, records >>

selVars == << sOptions, sWanted, spc, sExact, sLog, sResult >>

acqVars == << dtIdx, urlIdx, maint, gotoAfterMaint, acqLog, acqState, acqOptions,
              csv_bytes >>

mainVars == << all_rows, any_results_url, advanced_ok, err >>

prodVars == << existing_ids, rows_to_append, appended, rIdx, detail_used,
               sheet >>

recVars == << pageno, detail_urls, uIdx, visited >>

laVars == << cfg, pc, acqVars, mainVars, prodVars, recVars >>

txVars == << txcfg, tpc, out_len, offset, batch_len, txRequests >>

enVars == << script, BATCH_SIZE, MIN_ACCEPT_SCORE, blacklist_rules, values, row_i,
    epc, updates, processed, calls, worksheet, wrote >>

chVars == << ch_hrefs, ch_company, ch_rules, ch_min, ch_top, ch_flagged, ch_result,
    chpc >>

nycVars == << nyc_max_pages, nyc_existing_ids, permits_by_job, nyc_page,
    nyc_jobs, nyc_rows_to_append, c_with_award_id, c_new_not_dupe,
    nyc_sheet, npc >>

njVars == << nj_job, nj_permit, nj_naics, njpc >>

pdVars == << pd_s, pd_result, pdpc >>

vars == << csvVars, selVars, laVars, txVars, enVars, chVars, nycVars, njVars, pdVars >>

notCsv == << selVars, laVars, txVars, enVars, chVars, nycVars, njVars,
    pdVars >>

notSel == << csvVars, laVars, txVars, enVars, chVars, nycVars, njVars,
    pdVars >>

notLa == << csvVars, selVars, txVars, enVars, chVars, nycVars, njVars,
    pdVars >>

notTx == << csvVars, selVars, laVars, enVars, chVars, nycVars, njVars,
    pdVars >>

notEn == << csvVars, selVars, laVars, txVars, chVars, nycVars, njVars,
    pdVars >>

notCh == << csvVars, selVars, laVars, txVars, enVars, nycVars, njVars,
    pdVars >>

notNyc == << csvVars, selVars, laVars, txVars, enVars, chVars, njVars,
    pdVars >>

notNj == << csvVars, selVars, laVars, txVars, enVars, chVars, nycVars,
    pdVars >>

notPd == << csvVars, selVars, laVars, txVars, enVars, chVars, nycVars,
    njVars >>

\* ------------------------------------------------------------------------
\* Bounds
\* ------------------------------------------------------------------------
MaxLen == 5          \* longest payload explored by the csv specification

MaxOptions == 2      \* most <option> elements of a select

MaxNew == 3          \* largest LA_MAX_NEW explored

MaxDetailCap == 2    \* largest LA_DETAIL_CAP explored

MaxRecentPages == 2  \* largest LA_CEQANET_RECENT_PAGES explored

MaxDetailVisits == 2 \* largest LA_CEQANET_DETAIL_VISITS explored

MaxHrefs == 2        \* most CEQAnet links on one Recent page

MaxTxMaxNew == 1     \* largest TX_MAX_NEW explored

MaxPageSize == 2     \* largest TX_PAGE_SIZE explored

MaxBatchSize == 2    \* largest BATCH_SIZE explored

MaxRows == 3         \* most data rows of the Companies_Enrichment tab

MaxResults == 7      \* most result links given to choose_best_candidate

MaxNycPages == 2     \* largest NYC_MAX_PAGES explored

MaxJobs == 2         \* most job filings on one page

\* ------------------------------------------------------------------------
\* Generic helpers
\* ------------------------------------------------------------------------
SeqsUpTo(S, n) == UNION { [1..k -> S] : k \in 0..n }

Min(a, b) == IF a <= b THEN a ELSE b

Max(a, b) == IF a >= b THEN a ELSE b

\* ------------------------------------------------------------------------
\* Bytes and text.  "BOM" is the UTF-8 byte order mark (decoded: U+FEFF),
\* "XX" a byte that is not valid UTF-8, "LF"/"CR" the line ends, "Q" the
\* double quote, "SP" a blank, "HTML" the bytes of an HTML document marker
\* ("<html" or "<!doctype html"), which the csv reader takes as ordinary
\* characters.
\* ------------------------------------------------------------------------
Bytes == {"a", ",", "LF", "CR", "Q", "SP", "BOM", "XX", "HTML"}

Whitespace == {"SP", "LF", "CR"}

\* bytes.decode("utf-8", errors="ignore"): undecodable bytes are dropped
Decode(bs) == SelectSeq(bs, LAMBDA c : c # "XX")

RECURSIVE LStripBOM(_)
\* str.lstrip("\ufeff")
LStripBOM(s) ==
    IF s # <<>> /\ Head(s) = "BOM" THEN LStripBOM(Tail(s)) ELSE s

RECURSIVE LStrip(_)
LStrip(s) ==
    IF s # <<>> /\ Head(s) \in Whitespace THEN LStrip(Tail(s)) ELSE s

RECURSIVE RStrip(_)
RStrip(s) ==
    IF s # <<>> /\ s[Len(s)] \in Whitespace
    THEN RStrip(SubSeq(s, 1, Len(s) - 1)) ELSE s

\* str.strip()
Strip(s) == RStrip(LStrip(s))

\* A cell of a csv.DictReader row is a string, None (restval) or a list of
\* strings (the cells beyond the header, stored under restkey None).
NoneVal == [kind |-> "none"]

StrVal(s) == [kind |-> "str", s |-> s]

ListVal(l) == [kind |-> "list", l |-> l]

RECURSIVE ReprItems(_)
ReprItems(l) ==
    IF l = <<>> THEN <<>>
    ELSE <<"'">> \o Head(l) \o <<"'">>
         \o (IF Len(l) > 1 THEN <<",", "SP">> ELSE <<>>) \o ReprItems(Tail(l))

\* str() of a list of strings: its repr, "['3', '4']"
Repr(l) == <<"[">> \o ReprItems(l) \o <<"]">>

\* normalize_str: "" for None, else str(x).strip()
normalize_str(x) ==
    IF x.kind = "none" THEN <<>>
    ELSE IF x.kind = "str" THEN Strip(x.s)
    ELSE Strip(Repr(x.l))

\* ------------------------------------------------------------------------
\* csv.reader over io.StringIO(text), as parse_csv_bytes builds it
\* (la_run.py:113): default dialect (delimiter ",", quotechar Q,
\* doublequote, not strict), lines split at LF only.
\* ------------------------------------------------------------------------
RECURSIVE SplitLines(_, _)
\* iteration of io.StringIO(text): lines end at LF and keep it
SplitLines(text, cur) ==
    IF text = <<>> THEN (IF cur = <<>> THEN <<>> ELSE <<cur>>)
    ELSE IF Head(text) = "LF"
         THEN <<Append(cur, "LF")>> \o SplitLines(Tail(text), <<>>)
         ELSE SplitLines(Tail(text), Append(cur, Head(text)))

\* parser state of one csv.reader record
ParseReset == [state |-> "START_RECORD", fields |-> <<>>, field |-> <<>>,
               err |-> FALSE]

SaveField(st, next) ==
    [st EXCEPT !.fields = Append(st.fields, st.field), !.field = <<>>,
               !.state = next]

AddChar(st, c, next) ==
    [st EXCEPT !.field = Append(st.field, c), !.state = next]

IsNL(c) == c \in {"LF", "CR"}

AfterNL(c) == IF c = "EOL" THEN "START_RECORD" ELSE "EAT_CRNL"

StartField(st, c) ==
    IF IsNL(c) \/ c = "EOL" THEN SaveField(st, AfterNL(c))
    ELSE IF c = "Q" THEN [st EXCEPT !.state = "IN_QUOTED_FIELD"]
    ELSE IF c = "," THEN SaveField(st, "START_FIELD")
    ELSE AddChar(st, c, "IN_FIELD")

\* parse_process_char of the csv reader; c is a character or "EOL"
ProcessChar(st, c) ==
    CASE st.state = "START_RECORD" ->
           IF c = "EOL" THEN st
           ELSE IF IsNL(c) THEN [st EXCEPT !.state = "EAT_CRNL"]
           ELSE StartField(st, c)
      [] st.state = "START_FIELD" -> StartField(st, c)
      [] st.state = "IN_FIELD" ->
           IF IsNL(c) \/ c = "EOL" THEN SaveField(st, AfterNL(c))
           ELSE IF c = "," THEN SaveField(st, "START_FIELD")
           ELSE AddChar(st, c, "IN_FIELD")
      [] st.state = "IN_QUOTED_FIELD" ->
           IF c = "EOL" THEN st
           ELSE IF c = "Q" THEN [st EXCEPT !.state = "QUOTE_IN_QUOTED_FIELD"]
           ELSE AddChar(st, c, "IN_QUOTED_FIELD")
      [] st.state = "QUOTE_IN_QUOTED_FIELD" ->
           IF c = "Q" THEN AddChar(st, c, "IN_QUOTED_FIELD")
           ELSE IF c = "," THEN SaveField(st, "START_FIELD")
           ELSE IF IsNL(c) \/ c = "EOL" THEN SaveField(st, AfterNL(c))
           ELSE AddChar(st, c, "IN_FIELD")
      [] st.state = "EAT_CRNL" ->
           IF IsNL(c) THEN st
           ELSE IF c = "EOL" THEN [st EXCEPT !.state = "START_RECORD"]
           ELSE [st EXCEPT !.err = TRUE]   \* "new-line character seen in
                                           \*  unquoted field"

RECURSIVE ProcessLine(_, _)
ProcessLine(st, line) ==
    IF st.err THEN st
    ELSE IF line = <<>> THEN ProcessChar(st, "EOL")
    ELSE ProcessLine(ProcessChar(st, Head(line)), Tail(line))

RECURSIVE ReadRecord(_, _)
\* Reader.__next__: consumes lines until a record is complete.
\* kind: "row" (a list of cells), "stop" (StopIteration), "error" (csv.Error)
ReadRecord(st, lines) ==
    IF lines = <<>>
    THEN IF st.field # <<>> \/ st.state = "IN_QUOTED_FIELD"
         THEN [kind |-> "row", row |-> Append(st.fields, st.field),
               rest |-> <<>>]
         ELSE [kind |-> "stop", row |-> <<>>, rest |-> <<>>]
    ELSE LET st2 == ProcessLine(st, Head(lines)) IN
         IF st2.err THEN [kind |-> "error", row |-> <<>>, rest |-> <<>>]
         ELSE IF st2.state = "START_RECORD"
              THEN [kind |-> "row", row |-> st2.fields, rest |-> Tail(lines)]
              ELSE ReadRecord(st2, Tail(lines))

ReaderNext(lines) == ReadRecord(ParseReset, lines)

\* ------------------------------------------------------------------------
\* csv.DictReader and parse_csv_bytes.  A dict is the sequence of its
\* <<key, value>> items in insertion order, keys unique.
\* ------------------------------------------------------------------------
HasKey(d, k) == \E i \in 1..Len(d) : d[i][1] = k

\* d[k] = v
DictPut(d, k, v) ==
    IF HasKey(d, k)
    THEN [i \in 1..Len(d) |-> IF d[i][1] = k THEN <<k, v>> ELSE d[i]]
    ELSE Append(d, <<k, v>>)

RECURSIVE ZipDict(_, _, _)
\* dict(zip(fieldnames, row))
ZipDict(d, names, row) ==
    IF names = <<>> \/ row = <<>> THEN d
    ELSE ZipDict(DictPut(d, StrVal(Head(names)), StrVal(Head(row))),
                 Tail(names), Tail(row))

RECURSIVE RestvalDict(_, _)
\* for key in fieldnames[lr:]: d[key] = restval (None)
RestvalDict(d, names) ==
    IF names = <<>> THEN d
    ELSE RestvalDict(DictPut(d, StrVal(Head(names)), NoneVal), Tail(names))

\* DictReader.__next__ for one non-blank row: long rows keep their extra
\* cells as a list under restkey None, short rows get None for the rest
DictReaderRow(fieldnames, row) ==
    LET lf == Len(fieldnames)
        lr == Len(row)
        d  == ZipDict(<<>>, fieldnames, row)
    IN  IF lf < lr THEN DictPut(d, NoneVal, ListVal(SubSeq(row, lf + 1, lr)))
        ELSE IF lf > lr THEN RestvalDict(d, SubSeq(fieldnames, lr + 1, lf))
        ELSE d

RECURSIVE NormalizeDict(_, _)
\* {normalize_str(k): normalize_str(v) for k, v in (r or {}).items()}
NormalizeDict(out, items) ==
    IF items = <<>> THEN out
    ELSE NormalizeDict(DictPut(out, normalize_str(Head(items)[1]),
                                    normalize_str(Head(items)[2])),
                       Tail(items))

RECURSIVE DictReaderRows(_, _)
\* the for loop over the DictReader: blank rows ([]) are skipped, a
\* csv.Error leaves the loop by the exception
DictReaderRows(fieldnames, lines) ==
    LET r == ReaderNext(lines) IN
    IF r.kind = "stop" THEN [raised |-> FALSE, recs |-> <<>>]
    ELSE IF r.kind = "error" THEN [raised |-> TRUE, recs |-> <<>>]
    ELSE IF r.row = <<>> THEN DictReaderRows(fieldnames, r.rest)
    ELSE LET more == DictReaderRows(fieldnames, r.rest) IN
         IF more.raised THEN more
         ELSE [raised |-> FALSE,
               recs |-> <<NormalizeDict(<<>>, DictReaderRow(fieldnames, r.row))>>
                        \o more.recs]

CsvText(bs) == LStripBOM(Decode(bs))

\* the first record of the reader is the header (DictReader.fieldnames)
HeaderOf(bs) == ReaderNext(SplitLines(CsvText(bs), <<>>))

\* parse_csv_bytes: [raised, recs]; raised means the call left by csv.Error
parse_csv_bytes(download_bytes) ==
    LET h == HeaderOf(download_bytes) IN
    IF h.kind = "stop" THEN [raised |-> FALSE, recs |-> <<>>]
    ELSE IF h.kind = "error" THEN [raised |-> TRUE, recs |-> <<>>]
    ELSE DictReaderRows(h.row, h.rest)

\* ------------------------------------------------------------------------
\* _select_by_row_text
\* ------------------------------------------------------------------------
\* str.lower() on the letters the option texts use
LowerChar(c) ==
    CASE c = "N" -> "n" [] c = "O" -> "o" [] c = "P" -> "p" [] c = "E" -> "e"
      [] c = "WWW." -> "www." [] c = "COMPANY" -> "company"
      [] c = "Elect" -> "elect" [] c = "PLUMB" -> "plumb"
      [] c = "Sprink" -> "sprink" [] c = "HVAC" -> "hvac"
      [] c = "Mechanic" -> "mechanic" [] c = "Boiler" -> "boiler"
      [] c = "Steel" -> "steel" [] c = "Struct" -> "struct"
      [] c = "Precast" -> "precast" [] c = "Bridge" -> "bridge"
      [] c = "Highway" -> "highway" [] c = "Street" -> "street"
      [] c = "Road" -> "road" [] c = "Approved" -> "approved"
      [] OTHER -> c

Lower(s) == [i \in 1..Len(s) |-> LowerChar(s[i])]

\* sub in s
Contains(sub, s) ==
    \E i \in 0..(Len(s) - Len(sub)) : SubSeq(s, i + 1, i + Len(sub)) = sub

DOC_TYPES == << <<"N", "O", "P">>, <<"N", "O", "E">> >>

OptionTexts ==
    { <<"N", "O", "P">>, <<"n", "o", "p">>, <<"SP", "N", "O", "P", "SP", "x">>,
      <<"N", "O", "E">>, <<"x">>, <<>> }

OptionValues == { <<>>, <<"v", "1">>, <<"v", "2">> }

Options == [text : OptionTexts, value : OptionValues]

\* the test of the fallback loop, line 310, case-sensitive
OptionTextMatchesExactCase(option_text, opt) ==
    Contains(option_text, normalize_str(StrVal(opt.text)))

\* the test of the fallback loop, line 310:
\*   option_text.lower() in normalize_str(inner_text).lower()
OptionTextMatches(option_text, opt) ==
    Contains(Lower(option_text), Lower(normalize_str(StrVal(opt.text))))

RECURSIVE FallbackPick(_, _, _)
\* the fallback loop, lines 308-314: index of the option whose value is
\* passed to select_option(value=...), 0 when the loop ends without a call
FallbackPick(options, option_text, i) ==
    IF i > Len(options) THEN 0
    ELSE IF OptionTextMatches(option_text, options[i])
            /\ options[i].value # <<>>
         THEN i
         ELSE FallbackPick(options, option_text, i + 1)

\* select_option(label=...) can only succeed on an option with that label
HasLabel(options, label) == \E i \in 1..Len(options) : options[i].text = label

SelIdle ==
    /\ sOptions = <<>> /\ sWanted = <<>> /\ spc = "idle"
    /\ sExact = "pending" /\ sLog = <<>> /\ sResult = FALSE

SelInit ==
    /\ sOptions \in SeqsUpTo(Options, MaxOptions)
    /\ sWanted \in {DOC_TYPES[i] : i \in 1..Len(DOC_TYPES)}
    /\ spc = "exact"
    /\ sExact = "pending"
    /\ sLog = <<>>
    /\ sResult = FALSE

\* lines 298-301: the select is visible and select_option(label) succeeds
SelectExactOk ==
    /\ spc = "exact"
    /\ HasLabel(sOptions, sWanted)
    /\ sLog' = Append(sLog, [by |-> "label", arg |-> sWanted])
    /\ sExact' = "ok"
    /\ sResult' = TRUE
    /\ spc' = "done"
    /\ UNCHANGED << sOptions, sWanted, notSel >>

\* lines 298-299 raise (no select, not visible): no select_option call
SelectNotVisible ==
    /\ spc = "exact"
    /\ sExact' = "failed"
    /\ spc' = "fallback"
    /\ UNCHANGED << sOptions, sWanted, sLog, sResult, notSel >>

\* line 300 raises: the label is not an option, or the call timed out
SelectExactRaises ==
    /\ spc = "exact"
    /\ sLog' = Append(sLog, [by |-> "label", arg |-> sWanted])
    /\ sExact' = "failed"
    /\ spc' = "fallback"
    /\ UNCHANGED << sOptions, sWanted, sResult, notSel >>

\* lines 305-314: the loop reaches an option to select; select_option(value)
\* returns (True) or raises (line 315, then False)
SelectFallbackCall ==
    /\ spc = "fallback"
    /\ FallbackPick(sOptions, sWanted, 1) # 0
    /\ sLog' = Append(sLog,
           [by |-> "value",
            arg |-> sOptions[FallbackPick(sOptions, sWanted, 1)].value])
    /\ sResult' \in BOOLEAN
    /\ spc' = "done"
    /\ UNCHANGED << sOptions, sWanted, sExact, notSel >>

\* lines 305-317: no option qualifies, or reading the options raises
SelectFallbackNone ==
    /\ spc = "fallback"
    /\ sResult' = FALSE
    /\ spc' = "done"
    /\ UNCHANGED << sOptions, sWanted, sExact, sLog, notSel >>

SelNext ==
    \/ SelectExactOk
    \/ SelectNotVisible
    \/ SelectExactRaises
    \/ SelectFallbackCall
    \/ SelectFallbackNone

\* ------------------------------------------------------------------------
\* parse_csv_bytes as an operation
\* ------------------------------------------------------------------------
CsvIdle == payload = <<>> /\ cpc = "idle" /\ records = <<>>

CsvInit ==
    /\ payload \in SeqsUpTo(Bytes, MaxLen)
    /\ cpc = "call"
    /\ records = <<>>

ParseCsvReturns ==
    /\ cpc = "call"
    /\ ~parse_csv_bytes(payload).raised
    /\ records' = parse_csv_bytes(payload).recs
    /\ cpc' = "returned"
    /\ UNCHANGED << payload, notCsv >>

ParseCsvRaises ==
    /\ cpc = "call"
    /\ parse_csv_bytes(payload).raised
    /\ cpc' = "raised"
    /\ UNCHANGED << payload, records, notCsv >>

CsvNext == ParseCsvReturns \/ ParseCsvRaises

\* ------------------------------------------------------------------------
\* la_run: Advanced Search acquisition
\* ------------------------------------------------------------------------
NumAdvancedUrls == 5

Opt(t, v) == [text |-> t, value |-> v]

\* Document Type selects a form page may carry
FormPages ==
    { << Opt(<<"N", "O", "P">>, <<"v", "1">>),
         Opt(<<"N", "O", "E">>, <<"v", "2">>) >>,
      << Opt(<<"SP", "N", "O", "P", "SP", "x">>, <<"v", "1">>) >>,
      << Opt(<<"n", "o", "p">>, <<>>), Opt(<<"x">>, <<"v", "2">>) >> }

\* exports the site may serve: columns "CEQA #", "Type", "Received"
CsvHeader == << "CEQA #", ",", "Type", ",", "Received", "LF" >>

CsvRow(id, type, recv) == <<id, ",">> \o type \o <<",", recv, "LF">>

MainPayloads ==
    { CsvHeader,
      CsvHeader \o CsvRow("2026010001", <<"N", "O", "P">>, "NEW"),
      CsvHeader \o CsvRow("2026010002", <<"n", "o", "e">>, "OLD"),
      CsvHeader \o CsvRow("2026010001", <<"E", "I", "R">>, "NEW")
                \o CsvRow("", <<"N", "O", "P">>, "BAD"),
      << "CEQA #", "CR", "2026010001", "CR" >> }

Step(name, ok) == [step |-> name, ok |-> ok]

Logged(name, ok) == [acqLog EXCEPT ![dtIdx] = Append(@, Step(name, ok))]

\* an exception leaving the for loop is caught at lines 666-669
CaughtByMain(kind) ==
    /\ acqState' = [acqState EXCEPT ![dtIdx] = kind]
    /\ err' = kind
    /\ advanced_ok' = FALSE
    /\ pc' = "produce"

\* line 654-655: the next document type, a fresh browser and page
StartAcquisition ==
    /\ pc = "loop"
    /\ dtIdx <= Len(DOC_TYPES)
    /\ acqState' = [acqState EXCEPT ![dtIdx] = "running"]
    /\ urlIdx' = 1
    /\ pc' = "open"
    /\ UNCHANGED << cfg, dtIdx, maint, gotoAfterMaint, acqLog, acqOptions, csv_bytes,
                    mainVars, prodVars, recVars, notLa >>

\* lines 661-664: every document type was exported
AfterLoop ==
    /\ pc = "loop"
    /\ dtIdx > Len(DOC_TYPES)
    /\ advanced_ok' = IF all_rows = <<>> THEN FALSE ELSE advanced_ok
    /\ pc' = "produce"
    /\ UNCHANGED << cfg, acqVars, all_rows, any_results_url, err, prodVars,
                    recVars, notLa >>

\* lines 333-349: the candidate does not load (except Exception: continue)
\* or loads a page that is neither unavailable nor the form
OpenTryNext ==
    /\ pc = "open"
    /\ urlIdx <= NumAdvancedUrls
    /\ gotoAfterMaint' = (gotoAfterMaint \/ maint)
    /\ urlIdx' = urlIdx + 1
    /\ UNCHANGED << cfg, pc, dtIdx, maint, acqLog, acqState, acqOptions,
                    csv_bytes, mainVars, prodVars, recVars, notLa >>

\* the except clauses of lines 346-349 never let the RuntimeError through
OpenSwallows(kind) == FALSE

\* lines 346-347: the RuntimeError of line 342 is re-raised
OpenPropagates(kind) == kind = "maintenance"

\* lines 340-342: the page carries the service-unavailable signature
OpenUnavailable ==
    /\ pc = "open"
    /\ urlIdx <= NumAdvancedUrls
    /\ gotoAfterMaint' = (gotoAfterMaint \/ maint)
    /\ maint' = TRUE
    /\ IF OpenPropagates("maintenance")
       THEN /\ acqLog' = Logged("open", FALSE)
            /\ CaughtByMain("maintenance")
            /\ UNCHANGED urlIdx
       ELSE /\ urlIdx' = urlIdx + 1
            /\ UNCHANGED << pc, acqLog, acqState, err, advanced_ok >>
    /\ UNCHANGED << cfg, dtIdx, acqOptions, csv_bytes, all_rows,
                    any_results_url, prodVars, recVars, notLa >>

\* lines 344-345: the form is showing
OpenForm ==
    /\ pc = "open"
    /\ urlIdx <= NumAdvancedUrls
    /\ gotoAfterMaint' = (gotoAfterMaint \/ maint)
    /\ \E page \in FormPages :
           acqOptions' = [acqOptions EXCEPT ![dtIdx] = page]
    /\ acqLog' = Logged("open", TRUE)
    /\ urlIdx' = 1
    /\ pc' = "fill"
    /\ UNCHANGED << cfg, dtIdx, maint, acqState, csv_bytes, mainVars,
                    prodVars, recVars, notLa >>

\* lines 351-352: no candidate opened the form
OpenExhausted ==
    /\ pc = "open"
    /\ urlIdx > NumAdvancedUrls
    /\ acqLog' = Logged("open", FALSE)
    /\ CaughtByMain("no_advanced")
    /\ urlIdx' = 1
    /\ UNCHANGED << cfg, dtIdx, maint, gotoAfterMaint, acqOptions, csv_bytes,
                    all_rows, any_results_url, prodVars, recVars, notLa >>

DateFillFailedBoth(ok_start, ok_end) == ~ok_start /\ ~ok_end

\* line 532: if not ok_start or not ok_end
DateFillFailed(ok_start, ok_end) == ~ok_start \/ ~ok_end

\* lines 530-534
FillDates ==
    /\ pc = "fill"
    /\ \E ok_start \in BOOLEAN, ok_end \in BOOLEAN :
          /\ acqLog' = [acqLog EXCEPT ![dtIdx] =
                 @ \o << Step("fill_start", ok_start), Step("fill_end", ok_end) >>]
          /\ IF DateFillFailed(ok_start, ok_end)
             THEN CaughtByMain("date_fill")
             ELSE /\ pc' = "select"
                  /\ UNCHANGED << acqState, err, advanced_ok >>
    /\ UNCHANGED << cfg, dtIdx, urlIdx, maint, gotoAfterMaint, acqOptions, csv_bytes,
                    all_rows, any_results_url, prodVars, recVars, notLa >>

SelectAlwaysCan(options, option_text) == TRUE

\* _select_by_row_text can return True only through line 300 or line 313
SelectCanSucceed(options, option_text) ==
    HasLabel(options, option_text) \/ FallbackPick(options, option_text, 1) # 0

\* lines 536-539
SelectDocType ==
    /\ pc = "select"
    /\ \E ok_doc \in BOOLEAN :
          /\ ok_doc => SelectCanSucceed(acqOptions[dtIdx], DOC_TYPES[dtIdx])
          /\ acqLog' = Logged("select", ok_doc)
          /\ IF ~ok_doc
             THEN CaughtByMain("doc_type_select")
             ELSE /\ pc' = "get_results"
                  /\ UNCHANGED << acqState, err, advanced_ok >>
    /\ UNCHANGED << cfg, dtIdx, urlIdx, maint, gotoAfterMaint, acqOptions, csv_bytes,
                    all_rows, any_results_url, prodVars, recVars, notLa >>

\* lines 541-549
ClickGetResults ==
    /\ pc = "get_results"
    /\ \E clicked \in BOOLEAN :
          /\ acqLog' = Logged("get_results", clicked)
          /\ IF ~clicked
             THEN CaughtByMain("no_get_results")
             ELSE /\ pc' = "wait_csv"
                  /\ UNCHANGED << acqState, err, advanced_ok >>
    /\ UNCHANGED << cfg, dtIdx, urlIdx, maint, gotoAfterMaint, acqOptions, csv_bytes,
                    all_rows, any_results_url, prodVars, recVars, notLa >>

\* lines 551-555
WaitDownloadCsv ==
    /\ pc = "wait_csv"
    /\ \E shown \in BOOLEAN :
          /\ acqLog' = Logged("wait_csv", shown)
          /\ IF ~shown
             THEN CaughtByMain("results_no_download")
             ELSE /\ pc' = "download"
                  /\ UNCHANGED << acqState, err, advanced_ok >>
    /\ UNCHANGED << cfg, dtIdx, urlIdx, maint, gotoAfterMaint, acqOptions, csv_bytes,
                    all_rows, any_results_url, prodVars, recVars, notLa >>

\* lines 557-573: the click or the download fails
DownloadFails ==
    /\ pc = "download"
    /\ acqLog' = Logged("download", FALSE)
    /\ CaughtByMain("download_failed")
    /\ UNCHANGED << cfg, dtIdx, urlIdx, maint, gotoAfterMaint, acqOptions, csv_bytes,
                    all_rows, any_results_url, prodVars, recVars, notLa >>

\* lines 557-577 and 656: the export is returned with the results url
DownloadCsv ==
    /\ pc = "download"
    /\ acqLog' = Logged("download", TRUE)
    /\ csv_bytes' \in MainPayloads
    /\ LET results_url == "results" IN
          any_results_url' =
              IF results_url # "" THEN results_url ELSE any_results_url
    /\ pc' = "parse"
    /\ UNCHANGED << cfg, dtIdx, urlIdx, maint, gotoAfterMaint, acqState, acqOptions,
                    all_rows, advanced_ok, err, prodVars, recVars, notLa >>

\* lines 657-659
ParseDownloaded ==
    /\ pc = "parse"
    /\ LET part == parse_csv_bytes(csv_bytes) IN
       IF part.raised
       THEN /\ CaughtByMain("csv_error")
            /\ UNCHANGED << all_rows, dtIdx >>
       ELSE /\ all_rows' = all_rows \o part.recs
            /\ acqState' = [acqState EXCEPT ![dtIdx] = "ok"]
            /\ dtIdx' = dtIdx + 1
            /\ pc' = "loop"
            /\ UNCHANGED << err, advanced_ok >>
    /\ csv_bytes' = <<>>
    /\ UNCHANGED << cfg, urlIdx, maint, gotoAfterMaint, acqLog, acqOptions,
                    any_results_url, prodVars, recVars, notLa >>

\* ------------------------------------------------------------------------
\* la_run: data production (Advanced Search rows, Recent fallback), write
\* ------------------------------------------------------------------------
UpperChar(c) ==
    CASE c = "n" -> "N" [] c = "o" -> "O" [] c = "p" -> "P" [] c = "e" -> "E"
      [] c = "company" -> "COMPANY"
      [] OTHER -> c

\* str.upper()
Upper(s) == [i \in 1..Len(s) |-> UpperChar(s[i])]

DictGet(d, k) == d[CHOOSE i \in 1..Len(d) : d[i][1] = k][2]

\* lower_map = {k.lower(): k for k in row.keys()}; lower_map.get(lc):
\* the last key of the row whose lower() is lc, "" when there is none
LowerMapGet(row, lc) ==
    LET hits == { i \in 1..Len(row) : Lower(row[i][1]) = lc } IN
    IF hits = {} THEN <<>>
    ELSE row[CHOOSE i \in hits : \A j \in hits : j <= i][1]

RECURSIVE pick(_, _)
\* lines 100-108
pick(row, candidates) ==
    IF candidates = <<>> THEN <<>>
    ELSE LET k == LowerMapGet(row, Lower(Head(candidates)))
             v == IF k = <<>> THEN <<>> ELSE normalize_str(StrVal(DictGet(row, k)))
         IN  IF v # <<>> THEN v ELSE pick(row, Tail(candidates))

SchNames == << <<"SCH Number">>, <<"SCH">>, <<"SCH#">>,
               <<"State Clearinghouse Number">> >>

TitleNames == << <<"Title">>, <<"Project Title">>, <<"Project">>,
                 <<"Document Title">> >>

ReceivedNames == << <<"Received">>, <<"Received Date">>, <<"Date Received">> >>

DocTypeNames == << <<"Type">>, <<"Document Type">>, <<"Doc Type">> >>

CeqaIdNames == << <<"CEQA #">>, <<"CEQA Number">>, <<"CEQAnet ID">>,
                  <<"Entry ID">>, <<"CEQA ID">>, <<"ID">> >>

UrlNames == << <<"URL">>, <<"Link">>, <<"Detail Link">>, <<"Record Link">> >>

\* ten digits starting with "20" (line 175); an id is one token
CeqaIds == {"2026010001", "2026010002", "2026010003"}

IsCeqaId(s) == Len(s) = 1 /\ s[1] \in CeqaIds

\* lines 172-182: the detail url, <<>> when the row gives none
ceqa_detail_url_from_row(row) ==
    LET ceqa_id == pick(row, CeqaIdNames)
        url     == pick(row, UrlNames)
    IN  IF IsCeqaId(ceqa_id) THEN <<"CEQANET_URL">> \o ceqa_id
        ELSE IF url # <<>> /\ Head(url) = "http" THEN url
        ELSE <<>>

\* lines 120-122: md5 of the first non-empty of ceqa_id, sch, title|type|received
stable_award_id(ceqa_id, sch, title, doc_type, received) ==
    LET key == IF ceqa_id # <<>> THEN ceqa_id
               ELSE IF sch # <<>> THEN sch
               ELSE title \o <<"|">> \o doc_type \o <<"|">> \o received
    IN  <<"md5">> \o key

\* lines 138-169 on the received values the model uses: "NEW" is a date on
\* or after SINCE_DATE, "OLD" one before it, "INV" matches a pattern with a
\* month or day out of range (date() raises ValueError), the rest is no date
parse_date_flexible(s) ==
    LET t == normalize_str(StrVal(s)) IN
    IF t = <<"NEW">> THEN "since"
    ELSE IF t = <<"OLD">> THEN "before"
    ELSE IF t = <<"INV">> THEN "raise"
    ELSE "none"

\* what scrape_ceqa_detail_in_page gives: it raises, or a summary
Detail(received, doctype) ==
    [raises |-> FALSE, received |-> received, doctype |-> doctype]

DetailOutcomes ==
    { [raises |-> TRUE, received |-> <<>>, doctype |-> <<>>],
      Detail(<<>>, <<>>),
      Detail(<<"NEW">>, <<"n", "o", "p">>),
      Detail(<<"OLD">>, <<"N", "O", "E">>),
      Detail(<<"INV">>, <<>>),
      Detail(<<"NEW">>, <<"E", "I", "R">>) }

DocTypeSet == { DOC_TYPES[i] : i \in 1..Len(DOC_TYPES) }

OutRow(award_id, source, stage, submitted) ==
    [award_id |-> award_id, data_source |-> source, stage |-> stage,
     submitted |-> submitted]

\* the CSV rows are used whatever the Advanced Search did
AdvancedBranchAlways(ok) == TRUE

\* line 677: if advanced_ok
AdvancedBranch(ok) == ok

\* lines 674-677 and 814-823
ProduceStart ==
    /\ pc = "produce"
    /\ rIdx' = 1
    /\ pc' = IF AdvancedBranch(advanced_ok) THEN "adv_rows" ELSE "recent_goto"
    /\ UNCHANGED << cfg, acqVars, mainVars, existing_ids, rows_to_append,
                    appended, detail_used, sheet, recVars, notLa >>

\* lines 681-683, 812: the loop over all_rows ends
AdvRowsEnd ==
    /\ pc = "adv_rows"
    /\ rIdx > Len(all_rows) \/ appended >= cfg.MAX_NEW
    /\ pc' = "write"
    /\ UNCHANGED << cfg, acqVars, mainVars, prodVars, recVars, notLa >>

\* lines 681-810: one row of all_rows
AdvRow ==
    /\ pc = "adv_rows"
    /\ rIdx <= Len(all_rows)
    /\ appended < cfg.MAX_NEW
    /\ LET r          == all_rows[rIdx]
           sch        == pick(r, SchNames)
           title      == pick(r, TitleNames)
           received   == pick(r, ReceivedNames)
           doc_type   == pick(r, DocTypeNames)
           detail_url == ceqa_detail_url_from_row(r)
           ceqa_id    == IF detail_url # <<>> /\ Head(detail_url) = "CEQANET_URL"
                         THEN Tail(detail_url) ELSE <<>>
           award_id   == stable_award_id(ceqa_id, sch, title, doc_type, received)
           enrich     == cfg.ENRICH_DETAILS /\ detail_url # <<>>
                         /\ detail_used < cfg.DETAIL_CAP
       IN
       IF (doc_type # <<>> /\ Upper(Strip(doc_type)) \notin DocTypeSet)
          \/ award_id \in existing_ids
       THEN /\ rIdx' = rIdx + 1
            /\ UNCHANGED << pc, existing_ids, rows_to_append, appended,
                            detail_used >>
       ELSE \E d \in DetailOutcomes :
            /\ ~enrich => d.raises
            /\ detail_used' = IF enrich /\ ~d.raises THEN detail_used + 1
                              ELSE detail_used
            /\ LET submitted == Strip(IF d.received # <<>> THEN d.received
                                      ELSE received)
                   stage     == Strip(IF d.doctype # <<>> THEN d.doctype
                                      ELSE doc_type)
                   parsed    == parse_date_flexible(submitted)
               IN
               IF parsed = "raise"
               THEN /\ pc' = "failed"
                    /\ UNCHANGED << rIdx, existing_ids, rows_to_append,
                                    appended >>
               ELSE IF parsed = "before"
               THEN /\ rIdx' = rIdx + 1
                    /\ UNCHANGED << pc, existing_ids, rows_to_append,
                                    appended >>
               ELSE /\ rows_to_append' = Append(rows_to_append,
                           OutRow(award_id, "adv", stage, submitted))
                    /\ existing_ids' = existing_ids \cup {award_id}
                    /\ appended' = appended + 1
                    /\ rIdx' = rIdx + 1
                    /\ UNCHANGED pc
    /\ UNCHANGED << cfg, acqVars, mainVars, sheet, recVars, notLa >>

\* ---- collect_detail_urls_from_recent, lines 584-624
RecentIds == {"2026010001", "2026010003"}

RECURSIVE AppendUnseen(_, _)
\* lines 601-611: ids not seen before are appended in page order
AppendUnseen(urls, ids) ==
    IF ids = <<>> THEN urls
    ELSE LET u == <<"CEQANET_URL", Head(ids)>> IN
         AppendUnseen(IF \E i \in 1..Len(urls) : urls[i] = u
                      THEN urls ELSE Append(urls, u),
                      Tail(ids))

\* lines 592-594: the Recent page loads
RecentGoto ==
    /\ pc = "recent_goto"
    /\ pageno' = 0
    /\ detail_urls' = <<>>
    /\ pc' = "recent_scan"
    /\ UNCHANGED << cfg, acqVars, mainVars, prodVars, uIdx, visited, notLa >>

\* line 592 raises: nothing in main catches it
RecentGotoRaises ==
    /\ pc = "recent_goto"
    /\ pc' = "failed"
    /\ UNCHANGED << cfg, acqVars, mainVars, prodVars, recVars, notLa >>

\* lines 596-622: one pass of the for loop over range(max_pages)
RecentScanPage ==
    /\ pc = "recent_scan"
    /\ pageno < cfg.MAX_RECENT_PAGES
    /\ \E ids \in SeqsUpTo(RecentIds, MaxHrefs), next_clicked \in BOOLEAN :
          /\ detail_urls' = AppendUnseen(detail_urls, ids)
          /\ pageno' = pageno + 1
          /\ pc' = IF next_clicked THEN "recent_scan" ELSE "recent_check"
    /\ UNCHANGED << cfg, acqVars, mainVars, prodVars, uIdx, visited, notLa >>

\* line 596: range(max_pages) is exhausted; line 624
RecentScanEnd ==
    /\ pc = "recent_scan"
    /\ pageno >= cfg.MAX_RECENT_PAGES
    /\ pc' = "recent_check"
    /\ UNCHANGED << cfg, acqVars, mainVars, prodVars, recVars, notLa >>

\* lines 825-834
RecentCheck ==
    /\ pc = "recent_check"
    /\ IF detail_urls = <<>>
       THEN pc' = "failed" /\ UNCHANGED << uIdx, detail_used, visited >>
       ELSE /\ pc' = "recent_rows"
            /\ uIdx' = 1
            /\ visited' = 0
            /\ detail_used' = 0
    /\ UNCHANGED << cfg, acqVars, mainVars, existing_ids, rows_to_append,
                    appended, rIdx, sheet, pageno, detail_urls, notLa >>

\* lines 836-840, 943-945: the loop over detail_urls ends
RecentRowsEnd ==
    /\ pc = "recent_rows"
    /\ \/ uIdx > Len(detail_urls)
       \/ appended >= cfg.MAX_NEW
       \/ visited >= cfg.MAX_DETAIL_VISITS
    /\ pc' = "write"
    /\ UNCHANGED << cfg, acqVars, mainVars, prodVars, recVars, notLa >>

\* lines 836-941: one detail url
RecentRow ==
    /\ pc = "recent_rows"
    /\ uIdx <= Len(detail_urls)
    /\ appended < cfg.MAX_NEW
    /\ visited < cfg.MAX_DETAIL_VISITS
    /\ visited' = visited + 1
    /\ \E d \in DetailOutcomes :
       LET u         == detail_urls[uIdx]
           stage     == Upper(Strip(d.doctype))
           submitted == Strip(d.received)
           parsed    == parse_date_flexible(submitted)
           ceqa_id   == Tail(u)
           award_id  == stable_award_id(ceqa_id, <<>>, <<>>, stage, submitted)
       IN
       IF d.raises
       THEN /\ uIdx' = uIdx + 1
            /\ UNCHANGED << pc, existing_ids, rows_to_append, appended,
                            detail_used >>
       ELSE /\ detail_used' = detail_used + 1
            /\ IF stage # <<>> /\ stage \notin DocTypeSet
               THEN /\ uIdx' = uIdx + 1
                    /\ UNCHANGED << pc, existing_ids, rows_to_append,
                                    appended >>
               ELSE IF parsed = "raise"
               THEN /\ pc' = "failed"
                    /\ UNCHANGED << uIdx, existing_ids, rows_to_append,
                                    appended >>
               ELSE IF parsed = "before" \/ award_id \in existing_ids
               THEN /\ uIdx' = uIdx + 1
                    /\ UNCHANGED << pc, existing_ids, rows_to_append,
                                    appended >>
               ELSE /\ rows_to_append' = Append(rows_to_append,
                           OutRow(award_id, "recent", stage, submitted))
                    /\ existing_ids' = existing_ids \cup {award_id}
                    /\ appended' = appended + 1
                    /\ uIdx' = uIdx + 1
                    /\ UNCHANGED pc
    /\ UNCHANGED << cfg, acqVars, mainVars, rIdx, sheet, pageno, detail_urls,
                    notLa >>

\* lines 950-956
WriteSheet ==
    /\ pc = "write"
    /\ sheet' = IF rows_to_append # <<>> THEN sheet \o rows_to_append
                ELSE sheet
    /\ pc' = "done"
    /\ UNCHANGED << cfg, acqVars, mainVars, existing_ids, rows_to_append,
                    appended, rIdx, detail_used, recVars, notLa >>

\* ---- la_run.main: the state at line 649
Config(max_new, enrich, detail_cap, recent_pages, detail_visits) ==
    [MAX_NEW |-> max_new, ENRICH_DETAILS |-> enrich, DETAIL_CAP |-> detail_cap,
     MAX_RECENT_PAGES |-> recent_pages, MAX_DETAIL_VISITS |-> detail_visits]

\* the settings explored: caps that never bind, and each cap binding alone
LaConfigs ==
    { Config(MaxNew, TRUE, MaxDetailCap, MaxRecentPages, MaxDetailVisits),
      Config(1, TRUE, MaxDetailCap, MaxRecentPages, MaxDetailVisits),
      Config(MaxNew, FALSE, MaxDetailCap, MaxRecentPages, MaxDetailVisits),
      Config(MaxNew, TRUE, 0, 1, 1),
      Config(MaxNew, TRUE, MaxDetailCap, 0, MaxDetailVisits) }

LaStart(p) ==
    /\ pc = p
    /\ dtIdx = 1
    /\ urlIdx = 1
    /\ maint = FALSE
    /\ gotoAfterMaint = FALSE
    /\ acqLog = [i \in 1..Len(DOC_TYPES) |-> <<>>]
    /\ acqState = [i \in 1..Len(DOC_TYPES) |-> "none"]
    /\ acqOptions = [i \in 1..Len(DOC_TYPES) |-> <<>>]
    /\ csv_bytes = <<>>
    /\ all_rows = <<>>
    /\ any_results_url = ""
    /\ err = ""
    /\ rows_to_append = <<>>
    /\ appended = 0
    /\ rIdx = 1
    /\ detail_used = 0
    /\ sheet = <<>>
    /\ pageno = 0
    /\ detail_urls = <<>>
    /\ uIdx = 1
    /\ visited = 0

LaIdle ==
    /\ cfg = [MAX_NEW |-> 0, ENRICH_DETAILS |-> FALSE, DETAIL_CAP |-> 0,
              MAX_RECENT_PAGES |-> 0, MAX_DETAIL_VISITS |-> 0]
    /\ advanced_ok = TRUE
    /\ existing_ids = {}
    /\ LaStart("idle")

\* lines 638-652
LaInit ==
    /\ cfg \in LaConfigs
    /\ advanced_ok = TRUE
    /\ existing_ids \in SUBSET { <<"md5", "2026010001">> }
    /\ LaStart("loop")

LaNext ==
    \/ StartAcquisition
    \/ AfterLoop
    \/ OpenTryNext
    \/ OpenUnavailable
    \/ OpenForm
    \/ OpenExhausted
    \/ FillDates
    \/ SelectDocType
    \/ ClickGetResults
    \/ WaitDownloadCsv
    \/ DownloadFails
    \/ DownloadCsv
    \/ ParseDownloaded
    \/ ProduceStart
    \/ AdvRowsEnd
    \/ AdvRow
    \/ RecentGoto
    \/ RecentGotoRaises
    \/ RecentScanPage
    \/ RecentScanEnd
    \/ RecentCheck
    \/ RecentRowsEnd
    \/ RecentRow
    \/ WriteSheet

\* ------------------------------------------------------------------------
\* tx_run.fetch_permits
\* ------------------------------------------------------------------------
TxIdle ==
    /\ txcfg = [MAX_NEW |-> 0, PAGE_SIZE |-> 0]
    /\ tpc = "idle" /\ out_len = 0 /\ offset = 0 /\ batch_len = 0
    /\ txRequests = 0

\* lines 263-267
TxInit ==
    /\ txcfg \in [MAX_NEW : -1..MaxTxMaxNew, PAGE_SIZE : -1..MaxPageSize]
    /\ tpc = "request"
    /\ out_len = 0
    /\ offset = 0
    /\ batch_len = 0
    /\ txRequests = 0

\* no record count the model can hold is cut off by this cap
OutCap == 10 * MaxTxMaxNew + MaxPageSize

SafetyStopExact(n, max_new) == n = max_new * 10

\* line 285: if len(out) >= MAX_NEW * 10
SafetyStop(n, max_new) == n >= max_new * 10

\* lines 270-289: one pass of the while loop; the server answers $limit
\* with a list of at most that many records
FetchBatch ==
    /\ tpc = "request"
    /\ txcfg.PAGE_SIZE >= 0
    /\ \E n \in 0..txcfg.PAGE_SIZE :
          /\ out_len + n <= OutCap
          /\ batch_len' = n
          /\ txRequests' = txRequests + 1
          /\ IF n = 0
             THEN /\ tpc' = "returned"
                  /\ UNCHANGED << out_len, offset >>
             ELSE /\ out_len' = out_len + n
                  /\ offset' = offset + n
                  /\ tpc' = IF SafetyStop(out_len + n, txcfg.MAX_NEW)
                            THEN "returned" ELSE "request"
    /\ UNCHANGED << txcfg, notTx >>

\* line 276: socrata_get raises (HTTP error status, timeout); fetch_permits
\* has no handler
FetchRaises ==
    /\ tpc = "request"
    /\ txRequests' = txRequests + 1
    /\ tpc' = "raised"
    /\ UNCHANGED << txcfg, out_len, offset, batch_len, notTx >>

TxNext == FetchBatch \/ FetchRaises

\* ------------------------------------------------------------------------
\* URLs and domains (main.py, ddg_fallback.py, scripts/ddg_fallback.py).
\* A url is a sequence of tokens: a scheme ("https://", "http://"), the
\* host prefix "www.", host labels, ".", a path ("/", "/p.pdf") and
\* blanks.  No label of the universe occurs inside another, so that
\* "pattern in domain" is containment of token sequences.
\* ------------------------------------------------------------------------
Schemes == {"https://", "http://"}

PathTokens == {"/", "/p.pdf"}

\* len() of a token in characters
TokLen(t) ==
    CASE t = "www." -> 4 [] t = "." -> 1 [] t = "com" -> 3
      [] t = "acme" -> 4 [] t = "evil" -> 4 [] t = "facebook" -> 8
      [] t = "registry" -> 8 [] t = "builders" -> 8 [] t = "inc" -> 3
      [] OTHER -> 1

RECURSIVE StrLen(_)
\* len(s) in characters
StrLen(s) == IF s = <<>> THEN 0 ELSE TokLen(Head(s)) + StrLen(Tail(s))

\* len(d.split(".")): one more than the dots of d
Parts(d) == 1 + Cardinality({ k \in 1..Len(d) : d[k] \in {".", "www."} })

RECURSIVE Netloc(_)
\* urlparse(s).netloc: what follows the scheme, up to the path
Netloc(s) ==
    IF s = <<>> \/ Head(s) \in PathTokens THEN <<>>
    ELSE <<Head(s)>> \o Netloc(Tail(s))

\* main.py:69-94, ddg_fallback.py:104-127, scripts/ddg_fallback.py:78-101
normalize_domain_from_anything(url_or_domain) ==
    IF url_or_domain = <<>> THEN <<>>
    ELSE LET s0   == Lower(Strip(url_or_domain))
             s    == IF s0 # <<>> /\ Head(s0) \in Schemes THEN s0
                     ELSE <<"https://">> \o s0
             host == Strip(Lower(Netloc(Tail(s))))
         IN  IF host # <<>> /\ Head(host) = "www." THEN Tail(host) ELSE host

canonical_https(url_or_domain) ==
    LET d == normalize_domain_from_anything(url_or_domain) IN
    IF d # <<>> THEN <<"https://">> \o d ELSE <<>>

\* re.search(r"\.(pdf|doc|docx|xls|xlsx)$", href)
IsFileLink(href) == href # <<>> /\ href[Len(href)] = "/p.pdf"

BLOCKED_DOMAINS ==
    { <<"facebook", ".", "com">>, <<"www.", "facebook", ".", "com">> }

SUSPICIOUS_DOMAIN_CONTAINS == { <<"registry">> }

\* the Blacklist_Rules tabs explored: [exact_domains, contains_patterns]
BlacklistRules ==
    { [exact_domains |-> {}, contains_patterns |-> {}],
      [exact_domains |-> {<<"evil", ".", "com">>}, contains_patterns |-> {}] }

\* is_blacklisted of main.py:148-162 and scripts/ddg_fallback.py:155-169
is_blacklisted(domain, rules) ==
    \/ domain = <<>>
    \/ LET d == Strip(Lower(domain)) IN
       \/ d \in BLOCKED_DOMAINS
       \/ d \in rules.exact_domains
       \/ \E pat \in rules.contains_patterns : pat # <<>> /\ Contains(pat, d)

\* is_blacklisted of ddg_fallback.py:210-231
is_blacklisted_ddg(domain, rules) ==
    \/ is_blacklisted(domain, rules)
    \/ \E pat \in SUSPICIOUS_DOMAIN_CONTAINS :
          Contains(pat, Strip(Lower(domain)))

\* ---- main.py: choose_best_official_site, ddg_search_best_site
\* score of line 256
OfficialScore(domain) == 100 - StrLen(domain) - 10 * Max(0, Parts(domain) - 2)

\* the candidates line 243-252 does not skip, as domains
Usable(candidates, rules) ==
    SelectSeq([k \in 1..Len(candidates) |->
                  IF IsFileLink(candidates[k]) THEN <<>>
                  ELSE normalize_domain_from_anything(candidates[k])],
              LAMBDA d : d # <<>> /\ ~is_blacklisted(d, rules))

\* main.py:232-262: the first usable domain of the highest score
choose_best_official_site(candidates, rules) ==
    LET u == Usable(candidates, rules) IN
    IF u = <<>> THEN <<>>
    ELSE LET b == CHOOSE k \in 1..Len(u) :
                     /\ \A j \in 1..Len(u) : OfficialScore(u[j]) <= OfficialScore(u[k])
                     /\ \A j \in 1..(k - 1) : OfficialScore(u[j]) < OfficialScore(u[k])
         IN  canonical_https(u[b])

\* what the request of ddg_search_best_site / ddg_search_candidates gives:
\* it raises, or the hrefs of the result links
DdgResponse(raises, hrefs) == [raises |-> raises, hrefs |-> hrefs]

\* main.py:266-309: the first acceptable result, "" when the request fails
ddg_search_best_site(resp, rules) ==
    IF resp.raises THEN <<>>
    ELSE LET u == Usable(resp.hrefs, rules) IN
         IF u = <<>> THEN <<>> ELSE canonical_https(u[1])

\* scripts/ddg_fallback.py:197-220: [website, debug]
choose_first_candidate(hrefs, rules) ==
    LET u == Usable(hrefs, rules) IN
    IF u = <<>> THEN [website |-> <<>>, debug |-> "no_acceptable_result"]
    ELSE [website |-> canonical_https(u[1]), debug |-> "picked"]

\* ---- ddg_fallback.py: scoring and choose_best_candidate
StopWords == {"inc", "llc", "the"}

\* ddg_fallback.py:135-161: the words of the name that are no stop word and
\* have three characters or more, at most four of them
normalize_company_tokens(company) ==
    LET words == SelectSeq(Lower(company),
                           LAMBDA t : /\ t \notin Whitespace
                                      /\ t \notin StopWords
                                      /\ TokLen(t) >= 3)
    IN  SubSeq(words, 1, Min(4, Len(words)))

RECURSIVE TokenReward(_, _)
\* lines 272-274: 30 for every token that occurs in the domain
TokenReward(tokens, d) ==
    IF tokens = <<>> THEN 0
    ELSE (IF Contains(<<Head(tokens)>>, d) THEN 30 ELSE 0)
         + TokenReward(Tail(tokens), d)

\* ddg_fallback.py:255-280
score_candidate(domain, company_tokens) ==
    IF domain = <<>> THEN -1000000000
    ELSE LET d == Strip(Lower(domain)) IN
         0 - Min(StrLen(d), 80) - 15 * Max(0, Parts(d) - 2)
           + TokenReward(company_tokens, d)
           + (IF StrLen(d) <= 18 THEN 10 ELSE 0)

Cand(score, domain) == [score |-> score, domain |-> domain]

RECURSIVE InsertDesc(_, _)
\* c goes after every candidate whose score is not smaller (stable order)
InsertDesc(sorted, c) ==
    IF sorted = <<>> THEN <<c>>
    ELSE IF Head(sorted).score >= c.score
         THEN <<Head(sorted)>> \o InsertDesc(Tail(sorted), c)
         ELSE <<c>> \o sorted

RECURSIVE SortDesc(_, _)
\* candidates.sort(reverse=True, key=score), line 350: a stable sort
SortDesc(sorted, cands) ==
    IF cands = <<>> THEN sorted
    ELSE SortDesc(InsertDesc(sorted, Head(cands)), Tail(cands))

\* lines 329-344: the candidates, in the order of the hrefs
Candidates(hrefs, company, rules) ==
    LET toks == normalize_company_tokens(company)
        doms == SelectSeq([k \in 1..Len(hrefs) |->
                              IF IsFileLink(hrefs[k]) THEN <<>>
                              ELSE normalize_domain_from_anything(hrefs[k])],
                          LAMBDA d : d # <<>> /\ ~is_blacklisted_ddg(d, rules))
    IN  [k \in 1..Len(doms) |-> Cand(score_candidate(doms[k], toks), doms[k])]

\* lines 350-353: candidates[:6] after the sort
TopCandidates(hrefs, company, rules) ==
    LET s == SortDesc(<<>>, Candidates(hrefs, company, rules)) IN
    SubSeq(s, 1, Min(6, Len(s)))

\* homepage_looks_like_directory(url), lines 283-314: an empty url is bad,
\* otherwise the page decides (flagged: what the fetched page would give)
HomepageBad(url, flagged) == url = <<>> \/ flagged

Chosen(website, debug, score, k) ==
    [website |-> website, debug |-> debug, score |-> score, k |-> k]

\* ddg_fallback.py:317-364.  flagged: the positions among the top
\* candidates whose homepage carries a directory phrase.  k of the result:
\* the position of the candidate the loop of line 353 returned at, 0 if none
ChooseFromTop(top, min_accept, flagged) ==
    LET pass == { k \in 1..Len(top) :
                    ~HomepageBad(canonical_https(top[k].domain), k \in flagged) }
    IN  IF top = <<>>
        THEN Chosen(<<>>, "no_acceptable_domain", -1000000000, 0)
        ELSE IF pass = {}
        THEN Chosen(<<>>, "rejected_by_homepage_validation", top[1].score, 0)
        ELSE LET first == CHOOSE k \in pass : \A j \in pass : k <= j IN
             IF top[first].score < min_accept
             THEN Chosen(<<>>, "low_confidence", top[first].score, first)
             ELSE Chosen(canonical_https(top[first].domain), "picked",
                         top[first].score, first)

choose_best_candidate(hrefs, company, rules, min_accept, flagged) ==
    ChooseFromTop(TopCandidates(hrefs, company, rules), min_accept, flagged)

\* ------------------------------------------------------------------------
\* main() of main.py, ddg_fallback.py and scripts/ddg_fallback.py: one loop
\* over the rows of Companies_Enrichment, then one batch_update
\* ------------------------------------------------------------------------
Scripts == {"main", "ddg", "scripts_ddg"}

ROW_TYPE_COMPANY == <<"COMPANY">>

\* a row of the tab: the cells of columns A, B, C, J, L, M, O, P, Q
SheetRow(a, b, c, j, l, o) ==
    [A |-> a, B |-> b, C |-> c, J |-> j, L |-> l, M |-> <<>>, O |-> o,
     P |-> <<>>, Q |-> <<>>]

HeaderRow == SheetRow(<<"Recipient">>, <<"UEI">>, <<"Address">>,
                      <<"row_type">>, <<"Website">>, <<"ddg_site">>)

\* the data rows explored
DataRows ==
    { SheetRow(<<"acme">>, <<"U1">>, <<"addr">>, <<"COMPANY">>, <<>>, <<>>),
      SheetRow(<<"acme">>, <<>>, <<>>, <<"SP", "company">>, <<"SP">>,
               <<"https://", "acme", ".", "com">>),
      SheetRow(<<"acme">>, <<"U1">>, <<"addr">>, <<"COMPANY">>,
               <<"https://", "acme", ".", "com">>, <<>>),
      SheetRow(<<"acme">>, <<"U1">>, <<"addr">>, <<"OTHER">>, <<>>, <<>>),
      SheetRow(<<"SP">>, <<"U1">>, <<"addr">>, <<"COMPANY">>, <<>>, <<>>),
      SheetRow(<<"acme">>, <<"U1">>, <<"SP">>, <<"COMPANY">>, <<>>, <<>>) }

\* the tests of lines 350-353 without the test of the website cell
EligibleAnyWebsite(s, row) ==
    /\ Upper(Strip(row.J)) = ROW_TYPE_COMPANY
    /\ Strip(row.A) # <<>>

\* main.py:343-355, ddg_fallback.py:398-409 (website of column L blank),
\* scripts/ddg_fallback.py:256-270 (DDG website of column O blank)
Eligible(s, row) ==
    /\ Upper(Strip(row.J)) = ROW_TYPE_COMPANY
    /\ Strip(row.A) # <<>>
    /\ Strip(IF s = "scripts_ddg" THEN row.O ELSE row.L) = <<>>

\* what sam_lookup_entity_by_uei returns, as the urls find_candidate_urls
\* collects from it: {} (request failed, status not 200, no JSON), or a
\* payload with these candidate urls
SamPayload(empty, candidates) == [empty |-> empty, candidates |-> candidates]

SamPayloads ==
    { SamPayload(TRUE, <<>>),
      SamPayload(FALSE, <<>>),
      SamPayload(FALSE, << <<"https://", "www.", "facebook", ".", "com", "/">>,
                           <<"acme", ".", "com", "/p.pdf">> >>),
      SamPayload(FALSE, << <<"https://", "www.", "acme", ".", "com", "/">> >>) }

DdgResponses ==
    { DdgResponse(TRUE, <<>>),
      DdgResponse(FALSE, << <<"https://", "facebook", ".", "com">> >>),
      DdgResponse(FALSE, << <<"https://", "evil", ".", "com">>,
                            <<"https://", "WWW.", "acme", ".", "com", "/">> >>) }

Update(row_num, website, status, debug) ==
    [row_num |-> row_num, website |-> website, status |-> status,
     debug |-> debug]

Call(row_num, api, result) == [row_num |-> row_num, api |-> api, result |-> result]

\* the row the loop is at, and its stripped cells
CurRow == values[row_i + 1]

InLoop == epc = "loop" /\ row_i <= Len(values) - 1

\* the guard of main.py:380
DdgWantedAlways(address) == TRUE

DdgWanted(address) == address # <<>>

\* updates.append(...); processed += 1; if processed >= BATCH_SIZE: break
\* (main.py:388-393, ddg_fallback.py:439-444, scripts/ddg_fallback.py:290-295)
BatchFull(n, batch_size) == n >= batch_size

AppendUpdate(website, status, debug) ==
    /\ updates' = Append(updates, Update(row_i + 1, website, status, debug))
    /\ processed' = processed + 1
    /\ row_i' = row_i + 1
    /\ epc' = IF BatchFull(processed + 1, BATCH_SIZE) THEN "write" ELSE "loop"

\* values = ws.get_values(...); if not values or len(values) < 2: return
EnReadValues ==
    /\ epc = "start"
    /\ epc' = IF Len(values) < 2 THEN "done" ELSE "loop"
    /\ UNCHANGED << script, BATCH_SIZE, MIN_ACCEPT_SCORE, blacklist_rules, values, row_i,
                    updates, processed, calls, worksheet, wrote, notEn >>

\* the three continue statements
EnSkipRow ==
    /\ InLoop
    /\ ~Eligible(script, CurRow)
    /\ row_i' = row_i + 1
    /\ UNCHANGED << script, BATCH_SIZE, MIN_ACCEPT_SCORE, blacklist_rules, values, epc,
                    updates, processed, calls, worksheet, wrote, notEn >>

\* main.py:364-365
EnNoUei ==
    /\ InLoop /\ script = "main"
    /\ Eligible(script, CurRow)
    /\ Strip(CurRow.B) = <<>>
    /\ AppendUpdate(<<>>, "NO_UEI", "")
    /\ UNCHANGED << script, BATCH_SIZE, MIN_ACCEPT_SCORE, blacklist_rules, values, calls,
                    worksheet, wrote, notEn >>

\* main.py:367-380: the SAM lookup and what follows it up to the DDG search
EnSamLookup ==
    /\ InLoop /\ script = "main"
    /\ Eligible(script, CurRow)
    /\ Strip(CurRow.B) # <<>>
    /\ \E p \in SamPayloads :
       LET website == choose_best_official_site(p.candidates, blacklist_rules) IN
       IF p.empty
       THEN /\ calls' = Append(calls, Call(row_i + 1, "sam", "API_ERROR"))
            /\ AppendUpdate(<<>>, "API_ERROR", "")
       ELSE IF website # <<>>
       THEN /\ calls' = Append(calls, Call(row_i + 1, "sam", "FOUND"))
            /\ AppendUpdate(website, "FOUND", "")
       ELSE /\ calls' = Append(calls, Call(row_i + 1, "sam", "NOT_FOUND"))
            /\ IF DdgWanted(Strip(CurRow.C))
               THEN /\ epc' = "ddg"
                    /\ UNCHANGED << row_i, updates, processed >>
               ELSE AppendUpdate(<<>>, "NOT_FOUND", "")
    /\ UNCHANGED << script, BATCH_SIZE, MIN_ACCEPT_SCORE, blacklist_rules, values, worksheet,
                    wrote, notEn >>

\* main.py:381-386: ddg_search_best_site
EnDdgSearch ==
    /\ epc = "ddg"
    /\ \E resp \in DdgResponses :
       LET ddg_site == ddg_search_best_site(resp, blacklist_rules) IN
       /\ calls' = Append(calls, Call(row_i + 1, "ddg",
                                      IF resp.raises THEN "raised" ELSE "ok"))
       /\ IF ddg_site # <<>>
          THEN AppendUpdate(ddg_site, "FOUND_DDG_FALLBACK", "")
          ELSE AppendUpdate(<<>>, "NOT_FOUND", "")
    /\ UNCHANGED << script, BATCH_SIZE, MIN_ACCEPT_SCORE, blacklist_rules, values, worksheet,
                    wrote, notEn >>

\* ddg_fallback.py:411-437
EnDdgRow ==
    /\ InLoop /\ script = "ddg"
    /\ Eligible(script, CurRow)
    /\ LET company == Strip(CurRow.A)
           query   == Strip(company \o <<"SP">> \o Strip(CurRow.C))
       IN
       IF query = <<>>
       THEN /\ AppendUpdate(<<>>, "SKIP_NO_QUERY", "empty_company_and_address")
            /\ UNCHANGED calls
       ELSE \E resp \in DdgResponses :
            \E flagged \in SUBSET (1..Len(TopCandidates(resp.hrefs, company,
                                                        blacklist_rules))) :
            LET c == choose_best_candidate(resp.hrefs, company, blacklist_rules,
                                           MIN_ACCEPT_SCORE, flagged)
            IN
            /\ calls' = Append(calls, Call(row_i + 1, "ddg",
                                   IF resp.raises THEN "raised" ELSE "ok"))
            /\ IF resp.raises THEN AppendUpdate(<<>>, "ERROR", "RequestException")
               ELSE IF c.website # <<>>
               THEN AppendUpdate(c.website, "FOUND", c.debug)
               ELSE IF c.debug = "low_confidence"
               THEN AppendUpdate(<<>>, "REVIEW", c.debug)
               ELSE AppendUpdate(<<>>, "NOT_FOUND", c.debug)
    /\ UNCHANGED << script, BATCH_SIZE, MIN_ACCEPT_SCORE, blacklist_rules, values, worksheet,
                    wrote, notEn >>

\* scripts/ddg_fallback.py:272-288
EnScriptsDdgRow ==
    /\ InLoop /\ script = "scripts_ddg"
    /\ Eligible(script, CurRow)
    /\ LET query == Strip(Strip(CurRow.A) \o <<"SP">> \o Strip(CurRow.C)) IN
       IF query = <<>>
       THEN /\ AppendUpdate(<<>>, "SKIP_NO_QUERY", "empty_company_and_address")
            /\ UNCHANGED calls
       ELSE \E resp \in DdgResponses :
            LET c == choose_first_candidate(resp.hrefs, blacklist_rules) IN
            /\ calls' = Append(calls, Call(row_i + 1, "ddg",
                                   IF resp.raises THEN "raised" ELSE "ok"))
            /\ IF resp.raises THEN AppendUpdate(<<>>, "ERROR", "RequestException")
               ELSE AppendUpdate(c.website,
                                 IF c.website # <<>> THEN "FOUND" ELSE "NOT_FOUND",
                                 c.debug)
    /\ UNCHANGED << script, BATCH_SIZE, MIN_ACCEPT_SCORE, blacklist_rules, values, worksheet,
                    wrote, notEn >>

\* for i in range(1, len(values)) is exhausted
EnLoopEnd ==
    /\ epc = "loop"
    /\ row_i > Len(values) - 1
    /\ epc' = "write"
    /\ UNCHANGED << script, BATCH_SIZE, MIN_ACCEPT_SCORE, blacklist_rules, values, row_i,
                    updates, processed, calls, worksheet, wrote, notEn >>

\* if not updates: return
EnNothingToUpdate ==
    /\ epc = "write"
    /\ updates = <<>>
    /\ epc' = "done"
    /\ UNCHANGED << script, BATCH_SIZE, MIN_ACCEPT_SCORE, blacklist_rules, values, row_i,
                    updates, processed, calls, worksheet, wrote, notEn >>

\* the cells one update writes: main.py:401-405 (L:M),
\* ddg_fallback.py:452-460 (L and O:P), scripts/ddg_fallback.py:303-307 (O:Q)
WriteUpdate(s, row, u) ==
    CASE s = "main" -> [row EXCEPT !.L = u.website, !.M = <<u.status>>]
      [] s = "ddg"  -> [row EXCEPT !.L = u.website, !.O = <<u.status>>,
                                   !.P = <<u.debug>>]
      [] OTHER      -> [row EXCEPT !.O = u.website, !.P = <<u.status>>,
                                   !.Q = <<u.debug>>]

RECURSIVE ApplyUpdates(_, _, _)
ApplyUpdates(s, ws, us) ==
    IF us = <<>> THEN ws
    ELSE ApplyUpdates(s,
            [ws EXCEPT ![Head(us).row_num] = WriteUpdate(s, @, Head(us))],
            Tail(us))

\* ws.batch_update(batch)
EnBatchUpdate ==
    /\ epc = "write"
    /\ updates # <<>>
    /\ worksheet' = ApplyUpdates(script, worksheet, updates)
    /\ wrote' = TRUE
    /\ epc' = "done"
    /\ UNCHANGED << script, BATCH_SIZE, MIN_ACCEPT_SCORE, blacklist_rules, values, row_i,
                    updates, processed, calls, notEn >>

\* ws.batch_update(batch) raises (quota, network): nothing is written
EnBatchUpdateRaises ==
    /\ epc = "write"
    /\ updates # <<>>
    /\ epc' = "failed"
    /\ UNCHANGED << script, BATCH_SIZE, MIN_ACCEPT_SCORE, blacklist_rules, values, row_i,
                    updates, processed, calls, worksheet, wrote, notEn >>

\* MIN_ACCEPT_SCORE settings explored: the default and a lenient one
MinAcceptScores == {10, 40}

EnIdle ==
    /\ script = "none" /\ BATCH_SIZE = 0 /\ MIN_ACCEPT_SCORE = 0
    /\ blacklist_rules = [exact_domains |-> {}, contains_patterns |-> {}]
    /\ values = <<>> /\ row_i = 1 /\ epc = "idle" /\ updates = <<>>
    /\ processed = 0 /\ calls = <<>> /\ worksheet = <<>> /\ wrote = FALSE

\* the state after the tabs were read (main.py:326-329)
EnInit ==
    /\ script \in Scripts
    /\ BATCH_SIZE \in -1..MaxBatchSize
    /\ MIN_ACCEPT_SCORE \in (IF script = "ddg" THEN MinAcceptScores ELSE {40})
    /\ blacklist_rules \in BlacklistRules
    /\ values \in {<<>>} \cup { <<HeaderRow>> \o rs : rs \in SeqsUpTo(DataRows, MaxRows) }
    /\ row_i = 1
    /\ epc = "start"
    /\ updates = <<>>
    /\ processed = 0
    /\ calls = <<>>
    /\ worksheet = values
    /\ wrote = FALSE

EnNext ==
    \/ EnReadValues
    \/ EnSkipRow
    \/ EnNoUei
    \/ EnSamLookup
    \/ EnDdgSearch
    \/ EnDdgRow
    \/ EnScriptsDdgRow
    \/ EnLoopEnd
    \/ EnNothingToUpdate
    \/ EnBatchUpdate
    \/ EnBatchUpdateRaises

\* ------------------------------------------------------------------------
\* choose_best_candidate of ddg_fallback.py as an operation
\* ------------------------------------------------------------------------
\* result links a search may give
ResultHrefs ==
    { <<"https://", "acme", "builders", ".", "com", "/">>,
      <<"https://", "evil", ".", "com">>,
      <<"https://", "www.", "www.", "evil", ".", "com", "/">> }

ChooseInput(company, rs, min_accept) ==
    [company |-> company, rules |-> rs, min_accept |-> min_accept]

\* the company, Blacklist_Rules and MIN_ACCEPT_SCORE explored
ChooseInputs ==
    { ChooseInput(<<"acme", "SP", "builders">>,
                  [exact_domains |-> {}, contains_patterns |-> {}], 40),
      ChooseInput(<<"acme", "SP", "builders">>,
                  [exact_domains |-> {<<"evil", ".", "com">>},
                   contains_patterns |-> {}], 10),
      ChooseInput(<<"evil", "SP", "inc">>,
                  [exact_domains |-> {<<"evil", ".", "com">>},
                   contains_patterns |-> {}], 10) }

ChIdle ==
    /\ ch_hrefs = <<>> /\ ch_company = <<>>
    /\ ch_rules = [exact_domains |-> {}, contains_patterns |-> {}]
    /\ ch_min = 0 /\ ch_top = <<>> /\ ch_flagged = {} /\ chpc = "idle"
    /\ ch_result = Chosen(<<>>, "", 0, 0)

\* the state at line 352: the candidates are filtered, scored and sorted
ChInit ==
    /\ ch_hrefs \in SeqsUpTo(ResultHrefs, MaxResults)
    /\ \E c \in ChooseInputs :
          /\ ch_company = c.company
          /\ ch_rules = c.rules
          /\ ch_min = c.min_accept
    /\ ch_top = TopCandidates(ch_hrefs, ch_company, ch_rules)
    /\ ch_flagged = {}
    /\ chpc = "call"
    /\ ch_result = Chosen(<<>>, "", 0, 0)

\* lines 346-364: the homepages of the first n top candidates are flagged
\* as directories, the next one (if any) is not; the loop of line 353 looks
\* at no later candidate
ChooseCall(debug) ==
    /\ chpc = "call"
    /\ \E n \in 0..Len(ch_top) :
       LET r == ChooseFromTop(ch_top, ch_min, 1..n)
       IN  /\ r.debug = debug
           /\ ch_flagged' = 1..n
           /\ ch_result' = r
    /\ chpc' = "returned"
    /\ UNCHANGED << ch_hrefs, ch_company, ch_rules, ch_min, ch_top, notCh >>

\* line 347
ChooseNoCandidate == ChooseCall("no_acceptable_domain")

\* line 360
ChooseLowConfidence == ChooseCall("low_confidence")

\* line 362
ChoosePicked == ChooseCall("picked")

\* line 364
ChooseRejected == ChooseCall("rejected_by_homepage_validation")

ChNext ==
    \/ ChooseNoCandidate
    \/ ChooseLowConfidence
    \/ ChoosePicked
    \/ ChooseRejected

\* ------------------------------------------------------------------------
\* nyc_run.py: infer_naics and main.  A word is a sequence of tokens, the
\* keywords infer_naics looks for are tokens ("Elect", "rical" is
\* "Electrical"; "s", "Elect", "ion" is "Selection").
\* ------------------------------------------------------------------------
ALLOWED_NAICS == {"238210", "236220", "237310", "238220", "238120"}

RECURSIVE first_present(_, _)
\* nyc_run.py:46-52; a key the record does not have gives None
first_present(r, keys) ==
    IF keys = <<>> THEN <<>>
    ELSE LET v == IF Head(keys) \in DOMAIN r
                  THEN normalize_str(StrVal(r[Head(keys)])) ELSE <<>>
         IN  IF v # <<>> THEN v ELSE first_present(r, Tail(keys))

Job(id, status, plumbing, sprinkler, mechanical, boiler, structural) ==
    [job_filing_number |-> id, filing_status |-> status,
     plumbing_work_type |-> plumbing, sprinkler_work_type |-> sprinkler,
     mechanical_systems_work_type_ |-> mechanical,
     boiler_equipment_work_type_ |-> boiler,
     structural_work_type_ |-> structural]

Permit(status, work_type, work_permit) ==
    [permit_status |-> status, work_type |-> work_type,
     work_permit |-> work_permit]

\* permit is None: "permit or {}" is the empty dict
NoPermit == [none |-> TRUE]

\* lines 124-133: the text the keywords are looked for in
NaicsText(job, permit) ==
    Lower(first_present(job, <<"filing_status">>) \o <<"SP">>
          \o first_present(permit, <<"permit_status">>) \o <<"SP">>
          \o first_present(permit, <<"work_type", "work_permit">>) \o <<"SP">>
          \o first_present(job, <<"plumbing_work_type">>) \o <<"SP">>
          \o first_present(job, <<"sprinkler_work_type">>) \o <<"SP">>
          \o first_present(job, <<"mechanical_systems_work_type_">>) \o <<"SP">>
          \o first_present(job, <<"boiler_equipment_work_type_">>) \o <<"SP">>
          \o first_present(job, <<"structural_work_type_">>))

\* "kw in text" for one of the keywords
AnyIn(kws, text) == \E kw \in kws : Contains(<<kw>>, text)

\* the checks of lines 137-142 before those of lines 135-136
infer_naics_trades_first(job, permit) ==
    LET text == NaicsText(job, permit) IN
    IF AnyIn({"plumb", "sprink", "hvac", "mechanic", "boiler"}, text)
    THEN "238220"
    ELSE IF AnyIn({"elect"}, text) THEN "238210"
    ELSE IF AnyIn({"steel", "struct", "precast"}, text) THEN "238120"
    ELSE IF AnyIn({"bridge", "highway", "street", "road"}, text) THEN "237310"
    ELSE "236220"

\* nyc_run.py:119-144
infer_naics(job, permit) ==
    LET text == NaicsText(job, permit) IN
    IF AnyIn({"elect"}, text) THEN "238210"
    ELSE IF AnyIn({"plumb", "sprink", "hvac", "mechanic", "boiler"}, text)
    THEN "238220"
    ELSE IF AnyIn({"steel", "struct", "precast"}, text) THEN "238120"
    ELSE IF AnyIn({"bridge", "highway", "street", "road"}, text) THEN "237310"
    ELSE "236220"

\* ---- infer_naics as an operation
\* job filings and permits explored
NaicsJobs ==
    { Job(<<"J1">>, status, plumbing, sprinkler, mechanical, boiler, structural) :
        status \in { <<"Approved">>, <<"s", "Elect", "ion">> },
        plumbing \in { <<>>, <<"PLUMB", "ING">> },
        sprinkler \in { <<>>, <<"Sprink", "ler">> },
        mechanical \in { <<>>, <<"HVAC">>, <<"Mechanic", "al">> },
        boiler \in { <<>>, <<"SP", "Boiler">> },
        structural \in { <<>>, <<"Struct", "ural", "SP", "Steel">>,
                         <<"Precast">> } }

NaicsPermits ==
    { NoPermit }
    \cup { Permit(<<"Issued">>, work_type, work_permit) :
             work_type \in { <<>>, <<"Elect", "rical">>, <<"Bridge">>,
                             <<"Highway">>, <<"General">> },
             work_permit \in { <<>>, <<"Road", "way">>, <<"Street">> } }

NjIdle ==
    /\ nj_job = Job(<<>>, <<>>, <<>>, <<>>, <<>>, <<>>, <<>>)
    /\ nj_permit = NoPermit /\ nj_naics = "" /\ njpc = "idle"

NjInit ==
    /\ nj_job \in NaicsJobs
    /\ nj_permit \in NaicsPermits
    /\ nj_naics = ""
    /\ njpc = "call"

InferNaics(naics) ==
    /\ njpc = "call"
    /\ infer_naics(nj_job, nj_permit) = naics
    /\ nj_naics' = naics
    /\ njpc' = "returned"
    /\ UNCHANGED << nj_job, nj_permit, notNj >>

\* line 136
InferElectrical == InferNaics("238210")

\* line 138
InferPlumbingHvac == InferNaics("238220")

\* line 140
InferStructural == InferNaics("238120")

\* line 142
InferHighway == InferNaics("237310")

\* line 144
InferDefault == InferNaics("236220")

NjNext ==
    \/ InferElectrical
    \/ InferPlumbingHvac
    \/ InferStructural
    \/ InferHighway
    \/ InferDefault

\* ---- nyc_run.main, lines 547-719
NycJobIds == {"J1", "J2"}

PlainJob(id) == Job(id, <<"Approved">>, <<>>, <<>>, <<>>, <<>>, <<>>)

\* the job filings a page of the dataset may carry
NycJobs ==
    { PlainJob(<<"J1">>),
      Job(<<"SP", "J1", "SP">>, <<"Approved">>, <<"PLUMB", "ING">>, <<>>, <<>>,
          <<>>, <<>>),
      PlainJob(<<"J2">>),
      PlainJob(<<"SP">>) }

NycPermits == { NoPermit, Permit(<<"Issued">>, <<"Elect", "rical">>, <<>>) }

NycRow(award_id, naics) == [award_id |-> award_id, naics |-> naics]

\* the test of line 580
SeenNever(award_id, ids) == FALSE

SeenBefore(award_id, ids) == award_id \in ids

NycIdle ==
    /\ nyc_max_pages = 0 /\ nyc_existing_ids = {}
    /\ permits_by_job = [id \in NycJobIds |-> NoPermit]
    /\ nyc_page = 0 /\ nyc_jobs = <<>> /\ nyc_rows_to_append = <<>>
    /\ c_with_award_id = 0 /\ c_new_not_dupe = 0 /\ nyc_sheet = <<>>
    /\ npc = "idle"

\* the state at line 567: existing_ids is column A, the permits are joined
NycInit ==
    /\ nyc_max_pages \in 0..MaxNycPages
    /\ nyc_existing_ids \in SUBSET { <<"J1">> }
    /\ permits_by_job \in [NycJobIds -> NycPermits]
    /\ nyc_page = 0
    /\ nyc_jobs = <<>>
    /\ nyc_rows_to_append = <<>>
    /\ c_with_award_id = 0
    /\ c_new_not_dupe = 0
    /\ nyc_sheet = <<>>
    /\ npc = "pull"

\* lines 567-572: a page of job filings is pulled; an empty page ends the loop
NycPullJobs ==
    /\ npc = "pull"
    /\ nyc_page < nyc_max_pages
    /\ \E jobs \in SeqsUpTo(NycJobs, MaxJobs) :
          /\ nyc_jobs' = jobs
          /\ npc' = IF jobs = <<>> THEN "write" ELSE "jobs"
    /\ UNCHANGED << nyc_max_pages, nyc_existing_ids, permits_by_job, nyc_page,
                    nyc_rows_to_append, c_with_award_id, c_new_not_dupe,
                    nyc_sheet, notNyc >>

\* line 568: socrata_get raises (raise_for_status); main has no handler
NycPullRaises ==
    /\ npc = "pull"
    /\ nyc_page < nyc_max_pages
    /\ npc' = "failed"
    /\ UNCHANGED << nyc_max_pages, nyc_existing_ids, permits_by_job, nyc_page,
                    nyc_jobs, nyc_rows_to_append, c_with_award_id,
                    c_new_not_dupe, nyc_sheet, notNyc >>

\* range(max_pages) is exhausted
NycPagesDone ==
    /\ npc = "pull"
    /\ nyc_page >= nyc_max_pages
    /\ npc' = "write"
    /\ UNCHANGED << nyc_max_pages, nyc_existing_ids, permits_by_job, nyc_page,
                    nyc_jobs, nyc_rows_to_append, c_with_award_id,
                    c_new_not_dupe, nyc_sheet, notNyc >>

\* lines 574-710: one job filing.  kept: its score reaches min_score and
\* its start date is a quarter of 2026 (lines 591-604)
NycJob ==
    /\ npc = "jobs"
    /\ nyc_jobs # <<>>
    /\ nyc_jobs' = Tail(nyc_jobs)
    /\ LET job      == Head(nyc_jobs)
           award_id == first_present(job, <<"job_filing_number">>)
           permit   == IF award_id # <<>> /\ award_id[1] \in NycJobIds
                       THEN permits_by_job[award_id[1]] ELSE NoPermit
           naics    == infer_naics(job, permit)
       IN
       IF award_id = <<>>
       THEN UNCHANGED << nyc_existing_ids, nyc_rows_to_append,
                         c_with_award_id, c_new_not_dupe >>
       ELSE /\ c_with_award_id' = c_with_award_id + 1
            /\ IF SeenBefore(award_id, nyc_existing_ids)
               THEN UNCHANGED << nyc_existing_ids, nyc_rows_to_append,
                                 c_new_not_dupe >>
               ELSE /\ c_new_not_dupe' = c_new_not_dupe + 1
                    /\ \E kept \in BOOLEAN :
                       IF naics \notin ALLOWED_NAICS \/ ~kept
                       THEN UNCHANGED << nyc_existing_ids, nyc_rows_to_append >>
                       ELSE /\ nyc_rows_to_append' =
                                  Append(nyc_rows_to_append,
                                         NycRow(award_id, naics))
                            /\ nyc_existing_ids' =
                                  nyc_existing_ids \cup {award_id}
    /\ UNCHANGED << nyc_max_pages, permits_by_job, nyc_page, nyc_sheet, npc,
                    notNyc >>

\* line 712: the page is done
NycPageEnd ==
    /\ npc = "jobs"
    /\ nyc_jobs = <<>>
    /\ nyc_page' = nyc_page + 1
    /\ npc' = "pull"
    /\ UNCHANGED << nyc_max_pages, nyc_existing_ids, permits_by_job, nyc_jobs,
                    nyc_rows_to_append, c_with_award_id, c_new_not_dupe,
                    nyc_sheet, notNyc >>

\* lines 714-719
NycAppendRows ==
    /\ npc = "write"
    /\ nyc_sheet' = IF nyc_rows_to_append # <<>>
                    THEN nyc_sheet \o nyc_rows_to_append ELSE nyc_sheet
    /\ npc' = "done"
    /\ UNCHANGED << nyc_max_pages, nyc_existing_ids, permits_by_job, nyc_page,
                    nyc_jobs, nyc_rows_to_append, c_with_award_id,
                    c_new_not_dupe, notNyc >>

NycNext ==
    \/ NycPullJobs
    \/ NycPullRaises
    \/ NycPagesDone
    \/ NycJob
    \/ NycPageEnd
    \/ NycAppendRows

\* ------------------------------------------------------------------------
\* la_run.py: parse_date_flexible, character by character.  A text is the
\* sequence of its characters, "SP" is a blank.
\* ------------------------------------------------------------------------
Digits == {"0", "1", "2", "3", "4", "5", "6", "7", "8", "9"}

DigitVal(c) ==
    CASE c = "0" -> 0 [] c = "1" -> 1 [] c = "2" -> 2 [] c = "3" -> 3
      [] c = "4" -> 4 [] c = "5" -> 5 [] c = "6" -> 6 [] c = "7" -> 7
      [] c = "8" -> 8 [] c = "9" -> 9

RECURSIVE ToInt(_)
\* int(...) of a group of digits
ToInt(ds) ==
    IF ds = <<>> THEN 0
    ELSE ToInt(SubSeq(ds, 1, Len(ds) - 1)) * 10 + DigitVal(ds[Len(ds)])

\* lines 147-148: the separators become "/", white space is removed
NormalizeSeparators(s) ==
    LET slashed == [i \in 1..Len(s) |->
                      IF s[i] \in {"\\", "-", "."} THEN "/" ELSE s[i]]
        NotSpace(c) == c # "SP"
    IN  SelectSeq(slashed, NotSpace)

RECURSIVE SlashParts(_, _)
\* the pieces of s between the "/"; cur is the piece being read
SlashParts(s, cur) ==
    IF s = <<>> THEN << cur >>
    ELSE IF Head(s) = "/" THEN << cur >> \o SlashParts(Tail(s), <<>>)
    ELSE SlashParts(Tail(s), Append(cur, Head(s)))

\* \d{1,2}
OneOrTwoDigits(p) == Len(p) \in 1..2 /\ \A i \in 1..Len(p) : p[i] \in Digits

\* 20\d{2}
Year20xx(p) ==
    Len(p) = 4 /\ p[1] = "2" /\ p[2] = "0" /\ p[3] \in Digits /\ p[4] \in Digits

IsLeap(y) == y % 4 = 0 /\ (y % 100 # 0 \/ y % 400 = 0)

DaysInMonth(y, mo) ==
    IF mo = 2 THEN (IF IsLeap(y) THEN 29 ELSE 28)
    ELSE IF mo \in {4, 6, 9, 11} THEN 30 ELSE 31

NoDate == [kind |-> "None", y |-> 0, mo |-> 0, d |-> 0]

\* datetime.date(y, mo, d): ValueError for a month or day out of range
DateOf(y, mo, d) ==
    IF mo \in 1..12 /\ d >= 1 /\ d <= DaysInMonth(y, mo)
    THEN [kind |-> "date", y |-> y, mo |-> mo, d |-> d]
    ELSE [kind |-> "ValueError", y |-> y, mo |-> mo, d |-> d]

\* line 151
MatchesYmd(parts) ==
    Len(parts) = 3 /\ Year20xx(parts[1]) /\ OneOrTwoDigits(parts[2])
    /\ OneOrTwoDigits(parts[3])

\* line 157
MatchesMdy(parts) ==
    Len(parts) = 3 /\ OneOrTwoDigits(parts[1]) /\ OneOrTwoDigits(parts[2])
    /\ Year20xx(parts[3])

\* la_run.py:138-169 on the characters of s
parse_date_flexible_chars(s) ==
    LET t     == Strip(s)
        parts == SlashParts(NormalizeSeparators(t), <<>>)
    IN  IF t = <<>> THEN NoDate
        ELSE IF MatchesYmd(parts)
        THEN DateOf(ToInt(parts[1]), ToInt(parts[2]), ToInt(parts[3]))
        ELSE IF MatchesMdy(parts)
        THEN DateOf(ToInt(parts[3]), ToInt(parts[1]), ToInt(parts[2]))
        ELSE NoDate

\* ---- parse_date_flexible as an operation
\* groups of characters the texts explored are made of
DateGroups ==
    { <<"2", "0", "2", "5">>, <<"2", "0", "2", "4">>, <<"1", "9", "9", "9">>,
      <<"1", "2">>, <<"1", "5">>, <<"1", "3">>, <<"4", "5">>, <<"1">>,
      <<"3", "1">>, <<"2", "9">>, <<"2">>, <<"0", "2">>, <<"3", "0">>,
      <<"0">>, <<"x">>, <<"1", "SP", "2">> }

\* the texts explored, among them 15.12.2025, 13/45/2025 and 2025-02-30
DateTexts ==
    { <<>>, <<"SP">>, <<"2", "0", "2", "5">>,
      <<"2", "0", "2", "5", "/", "1", "/", "1", "/">> }
    \cup { pad \o a \o <<s1>> \o b \o <<s2>> \o c \o pad :
             pad \in { <<>>, <<"SP">> }, a \in DateGroups, b \in DateGroups,
             c \in DateGroups, s1 \in {"/", "-", ".", "\\"},
             s2 \in {"/", "."} }

PdIdle == pd_s = <<>> /\ pd_result = NoDate /\ pdpc = "idle"

PdInit == pd_s \in DateTexts /\ pd_result = NoDate /\ pdpc = "call"

ParseDate(result, at) ==
    /\ pdpc = "call"
    /\ parse_date_flexible_chars(pd_s) = result
    /\ pd_result' = result
    /\ pdpc' = at
    /\ UNCHANGED << pd_s, notPd >>

\* lines 142-143
ParseDateEmpty ==
    /\ Strip(pd_s) = <<>>
    /\ ParseDate(NoDate, "returned")

\* lines 151-154 and 157-160: a date is returned
ParseDateReturnsDate ==
    \E r \in { parse_date_flexible_chars(pd_s) } :
        r.kind = "date" /\ ParseDate(r, "returned")

\* line 154 or 160: date(y, mo, d) raises ValueError, nothing catches it
ParseDateRaises ==
    \E r \in { parse_date_flexible_chars(pd_s) } :
        r.kind = "ValueError" /\ ParseDate(r, "raised")

\* line 168
ParseDateNoMatch ==
    /\ Strip(pd_s) # <<>>
    /\ ParseDate(NoDate, "returned")

PdNext ==
    \/ ParseDateEmpty
    \/ ParseDateReturnsDate
    \/ ParseDateRaises
    \/ ParseDateNoMatch

\* ------------------------------------------------------------------------
\* Specifications
\* ------------------------------------------------------------------------
\* the scripts a specification does not run stay where they start
RestIdle == EnIdle /\ ChIdle /\ NycIdle /\ NjIdle /\ PdIdle

CsvSpecInit == CsvInit /\ SelIdle /\ LaIdle /\ TxIdle /\ RestIdle

SpecCsv == CsvSpecInit /\ [][CsvNext]_vars

SelectSpecInit == SelInit /\ CsvIdle /\ LaIdle /\ TxIdle /\ RestIdle

SpecSelect == SelectSpecInit /\ [][SelNext]_vars

Init == LaInit /\ CsvIdle /\ SelIdle /\ TxIdle /\ RestIdle

Next == LaNext

Spec == Init /\ [][Next]_vars

EnrichInit ==
    EnInit /\ CsvIdle /\ SelIdle /\ LaIdle /\ TxIdle /\ ChIdle /\ NycIdle /\ NjIdle
    /\ PdIdle

SpecEnrich == EnrichInit /\ [][EnNext]_vars

ChooseInit ==
    ChInit /\ CsvIdle /\ SelIdle /\ LaIdle /\ TxIdle /\ EnIdle /\ NycIdle /\ NjIdle
    /\ PdIdle

SpecChoose == ChooseInit /\ [][ChNext]_vars

NaicsInit ==
    NjInit /\ CsvIdle /\ SelIdle /\ LaIdle /\ TxIdle /\ EnIdle /\ ChIdle
    /\ NycIdle /\ PdIdle

SpecNaics == NaicsInit /\ [][NjNext]_vars

\* a run of la_run or a run of nyc_run
DedupeInit ==
    /\ CsvIdle /\ SelIdle /\ TxIdle /\ EnIdle /\ ChIdle /\ NjIdle /\ PdIdle
    /\ \/ LaInit /\ NycIdle
       \/ NycInit /\ LaIdle

DedupeNext == LaNext \/ NycNext

SpecDedupe == DedupeInit /\ [][DedupeNext]_vars

ParseDateInit ==
    PdInit /\ CsvIdle /\ SelIdle /\ LaIdle /\ TxIdle /\ EnIdle /\ ChIdle
    /\ NycIdle /\ NjIdle

SpecParseDate == ParseDateInit /\ [][PdNext]_vars

\* main at line 825 after an Advanced Search that found no form, any
\* LA_CEQANET_RECENT_PAGES
LaAtRecent ==
    /\ cfg \in { Config(MaxNew, TRUE, MaxDetailCap, n, MaxDetailVisits) :
                 n \in -1..MaxRecentPages }
    /\ pc = "recent_goto"
    /\ dtIdx = 1
    /\ urlIdx = 1
    /\ maint = FALSE
    /\ gotoAfterMaint = FALSE
    /\ acqLog = [i \in 1..Len(DOC_TYPES) |->
                   IF i = 1 THEN <<Step("open", FALSE)>> ELSE <<>>]
    /\ acqState = [i \in 1..Len(DOC_TYPES) |->
                   IF i = 1 THEN "no_advanced" ELSE "none"]
    /\ acqOptions = [i \in 1..Len(DOC_TYPES) |-> <<>>]
    /\ csv_bytes = <<>>
    /\ all_rows = <<>>
    /\ any_results_url = ""
    /\ advanced_ok = FALSE
    /\ err = "no_advanced"
    /\ existing_ids = {}
    /\ rows_to_append = <<>>
    /\ appended = 0
    /\ rIdx = 1
    /\ detail_used = 0
    /\ sheet = <<>>
    /\ pageno = 0
    /\ detail_urls = <<>>
    /\ uIdx = 1
    /\ visited = 0

RecentCollectNext ==
    RecentGoto \/ RecentGotoRaises \/ RecentScanPage \/ RecentScanEnd

PagingInit == TxInit /\ LaAtRecent /\ CsvIdle /\ SelIdle /\ RestIdle

PagingNext ==
    \/ FetchBatch
    \/ FetchRaises
    \/ RecentGoto
    \/ RecentGotoRaises
    \/ RecentScanPage
    \/ RecentScanEnd

\* the two paging loops, each run from its entry; every pass of a loop that
\* can run does run (the calls carry timeouts)
SpecPaging ==
    /\ PagingInit
    /\ [][PagingNext]_vars
    /\ WF_vars(TxNext)
    /\ WF_vars(RecentCollectNext)

\* ------------------------------------------------------------------------
\* Properties
\* ------------------------------------------------------------------------
ErrorKinds ==
    { "maintenance", "no_advanced", "date_fill", "doc_type_select",
      "no_get_results", "results_no_download", "download_failed",
      "csv_error" }

\* positions of main inside the Advanced Search loop (lines 654-659)
AcqPcs ==
    { "loop", "open", "fill", "select", "get_results", "wait_csv",
      "download", "parse" }

AdvRowsIn(rows) == { i \in 1..Len(rows) : rows[i].data_source = "adv" }

\* C1: when the export of an earlier document type succeeded with rows and
\* a later document type raised, a finished run has put the downloaded rows
\* through the row loop of line 681 (with MAX_NEW >= 1 its first row at
\* least), instead of leaving them unread.
C1_PartialRowsUsed ==
    ( /\ pc = "done"
      /\ cfg.MAX_NEW >= 1
      /\ all_rows # <<>>
      /\ \E i \in 1..Len(DOC_TYPES), j \in 1..Len(DOC_TYPES) :
            i < j /\ acqState[i] = "ok" /\ acqState[j] \in ErrorKinds )
    => rIdx > 1

\* C2: once a service-unavailable page was seen, no Advanced Search page.goto
\* follows (no remaining candidate url, no remaining document type): main
\* has left the Advanced Search loop with the error, and the document types
\* after the current one were never started.
C2_MaintenanceTerminal ==
    /\ ~gotoAfterMaint
    /\ maint =>
          /\ pc \notin AcqPcs
          /\ acqState[dtIdx] = "maintenance"
          /\ \A i \in 1..Len(DOC_TYPES) : i > dtIdx => acqState[i] = "none"

C2_Witness ==
    /\ maint
    /\ pc = "done"
    /\ dtIdx = 1
    /\ urlIdx < NumAdvancedUrls

\* the option the fallback is to pick: the first in document
\* order whose text contains the wanted text, ignoring case, with a value
IsFirstSubstringOption(options, wanted, i) ==
    LET Q(j) == /\ Contains(Lower(wanted), Lower(Strip(options[j].text)))
                /\ options[j].value # <<>>
    IN  /\ i \in 1..Len(options)
        /\ Q(i)
        /\ \A j \in 1..(i - 1) : ~Q(j)

\* C3: _select_by_row_text makes at most two select_option calls, the
\* exact-label one first and only then one by value; the value is that of
\* the first option in document order whose text contains the wanted text
\* (ignoring case) and whose value is non-empty; a successful exact match
\* is the only call; after the second call nothing more is tried.
C3_SelectAtMostTwoAttempts ==
    /\ Len(sLog) <= 2
    /\ \A k \in 1..Len(sLog) :
          /\ sLog[k].by = "label" => (k = 1 /\ sLog[k].arg = sWanted)
          /\ sLog[k].by = "value" =>
                /\ k = Len(sLog)
                /\ sExact = "failed"
                /\ spc = "done"
                /\ \E i \in 1..Len(sOptions) :
                      /\ IsFirstSubstringOption(sOptions, sWanted, i)
                      /\ sLog[k].arg = sOptions[i].value
    /\ sExact = "ok" =>
          (spc = "done" /\ sResult /\ Len(sLog) = 1 /\ sLog[1].by = "label")
    /\ (spc = "done" /\ sResult /\ sExact = "failed") =>
          sLog[Len(sLog)].by = "value"
    /\ (spc = "done" /\ sExact = "failed"
          /\ \A i \in 1..Len(sOptions) :
                ~IsFirstSubstringOption(sOptions, sWanted, i)) => ~sResult

\* both attempts were made, and the fallback passed over an option whose
\* text matched only when case is ignored and over none with a value
C3_Witness ==
    /\ spc = "done"
    /\ Len(sLog) = 2
    /\ sLog[1].by = "label"
    /\ sLog[2].by = "value"
    /\ sResult
    /\ IsFirstSubstringOption(sOptions, sWanted, 1)
    /\ sOptions[1].text # sWanted
    /\ ~Contains(sWanted, sOptions[1].text)

StepRank(name) ==
    CASE name = "open" -> 1 [] name = "fill_start" -> 2
      [] name = "fill_end" -> 3 [] name = "select" -> 4
      [] name = "get_results" -> 5 [] name = "wait_csv" -> 6
      [] name = "download" -> 7

\* C4: in every acquisition the steps occur in the order open, fill Start
\* Range, fill End Range, select Document Type, Get Results, wait for
\* Download CSV, download, none skipped; Get Results is clicked only after
\* both fills and the select succeeded, the download is attempted only after
\* Get Results was clicked and Download CSV appeared; after a failed step no
\* later step runs (the two fills count as one step) and the acquisition
\* ends with an error.
C4_StepsInOrder ==
    \A dt \in 1..Len(DOC_TYPES) :
       LET L == acqLog[dt] IN
       /\ \A k \in 1..Len(L) : StepRank(L[k].step) = k
       /\ Len(L) >= 5 => (L[2].ok /\ L[3].ok /\ L[4].ok)
       /\ Len(L) >= 7 => (L[5].ok /\ L[6].ok)
       /\ \A k \in 1..Len(L) :
             ~L[k].ok =>
                /\ k = Len(L) \/ (L[k].step = "fill_start" /\ k + 1 = Len(L))
                /\ acqState[dt] \in ErrorKinds

C4_Witness ==
    /\ Len(acqLog[1]) = 7
    /\ \A k \in 1..7 : acqLog[1][k].ok
    /\ Len(acqLog[2]) = 3
    /\ ~acqLog[2][2].ok
    /\ acqLog[2][3].ok

\* no option of the select carries the wanted text, exactly or as a
\* substring ignoring case
NoOptionMatches(options, wanted) ==
    \A i \in 1..Len(options) :
       /\ options[i].text # wanted
       /\ ~Contains(Lower(wanted), Lower(Strip(options[i].text)))

SelectTried(dt) ==
    \E k \in 1..Len(acqLog[dt]) : acqLog[dt][k].step = "select"

\* C5: when the Document Type wanted matches no option of the select, the
\* acquisition ends with the could-not-select error at the select step, no
\* Get Results click and no download follow in it, and the Advanced Search
\* contributes no row to the run (advanced_ok is False, no row of
\* rows_to_append or of the sheet comes from the export).
C5_UnresolvedOptionNoExport ==
    \A dt \in 1..Len(DOC_TYPES) :
       (SelectTried(dt) /\ NoOptionMatches(acqOptions[dt], DOC_TYPES[dt])) =>
          /\ acqState[dt] = "doc_type_select"
          /\ Len(acqLog[dt]) = 4
          /\ ~acqLog[dt][4].ok
          /\ err = "doc_type_select"
          /\ ~advanced_ok
          /\ AdvRowsIn(rows_to_append) = {}
          /\ AdvRowsIn(sheet) = {}

\* the second document type has no option after the first one was exported
\* with rows, and the run has finished
C5_Witness ==
    /\ pc = "done"
    /\ acqState[1] = "ok"
    /\ all_rows # <<>>
    /\ SelectTried(2)
    /\ NoOptionMatches(acqOptions[2], DOC_TYPES[2])

\* C6: when the acquisition of one document type failed because its option
\* could not be selected, a finished run has performed the acquisition of
\* every other document type.
C6_OtherTypesStillAcquired ==
    \A i \in 1..Len(DOC_TYPES) :
       (pc = "done" /\ acqState[i] = "doc_type_select") =>
          \A j \in 1..Len(DOC_TYPES) : j # i => acqState[j] # "none"

\* C7: at the branch of line 677, an Advanced Search whose exports all
\* completed without an error, with zero records, is not in the state main
\* reaches after an error (advanced_ok False, the Recent fallback).
C7_EmptyExportNotAnError ==
    ( /\ pc = "produce"
      /\ err = ""
      /\ \A i \in 1..Len(DOC_TYPES) : acqState[i] = "ok"
      /\ all_rows = <<>> )
    => advanced_ok

\* C8: every record parse_csv_bytes returns has exactly one entry per
\* column of the header row.
C8_RecordHasOneEntryPerHeaderColumn ==
    cpc = "returned" =>
       \A i \in 1..Len(records) :
          Len(records[i]) = Len(HeaderOf(payload).row)

\* C9: parse_csv_bytes returns for every payload, it never raises.
C9_ParseNeverRaises == cpc # "raised"

\* C10: fetch_permits ends, and while it runs it holds fewer than
\* MAX_NEW*10 records and its last batch was not empty, so it makes at most
\* max(1, MAX_NEW*10) requests; collect_detail_urls_from_recent ends and
\* scans at most max_pages pages.
C10_PagingTerminates ==
    /\ <>(tpc \in {"returned", "raised"})
    /\ <>(pc \in {"recent_check", "failed"})
    /\ [](/\ (tpc = "request" /\ txRequests > 0) =>
                (batch_len > 0 /\ out_len < txcfg.MAX_NEW * 10)
          /\ txRequests <= Max(1, txcfg.MAX_NEW * 10)
          /\ (tpc = "returned") =>
                (batch_len = 0 \/ out_len >= txcfg.MAX_NEW * 10)
          /\ pageno <= Max(0, cfg.MAX_RECENT_PAGES))

\* the safety cap stopped fetch_permits, and the Recent scan used up
\* max_pages
C10_Witness ==
    /\ tpc = "returned"
    /\ txcfg.MAX_NEW >= 1
    /\ batch_len > 0
    /\ out_len > txcfg.MAX_NEW * 10
    /\ pc = "recent_check"
    /\ pageno = cfg.MAX_RECENT_PAGES
    /\ pageno > 1

\* ------------------------------------------------------------------------
\* Payload classification
\* ------------------------------------------------------------------------
\* the payload carries an HTML document marker (every payload explored is
\* shorter than 4KB)
HasHtmlMarker(bs) == \E i \in 1..Len(bs) : bs[i] = "HTML"

\* C11: a payload that carries an HTML document marker is not normalized as
\* delimited text: parse_csv_bytes returns no record built from it.
C11_HtmlPayloadNotParsedAsCsv ==
    (cpc = "returned" /\ HasHtmlMarker(payload)) => records = <<>>

\* ------------------------------------------------------------------------
\* main.py, ddg_fallback.py, scripts/ddg_fallback.py
\* ------------------------------------------------------------------------
StatusesOf(row_num) ==
    { updates[k].status : k \in { j \in 1..Len(updates) : updates[j].row_num = row_num } }

\* C12: in main.py every DuckDuckGo search follows directly the SAM lookup
\* of the same row, which returned a non-empty payload from which no
\* website was chosen (NOT_FOUND); the row has a non-empty address, and its
\* status is never NO_UEI, API_ERROR or FOUND.
C12_DdgOnlyAfterSamNotFound ==
    script = "main" =>
       \A k \in 1..Len(calls) :
          calls[k].api = "ddg" =>
             /\ k > 1
             /\ calls[k - 1] = Call(calls[k].row_num, "sam", "NOT_FOUND")
             /\ Strip(values[calls[k].row_num].C) # <<>>
             /\ Strip(values[calls[k].row_num].B) # <<>>
             /\ StatusesOf(calls[k].row_num)
                   \subseteq {"NOT_FOUND", "FOUND_DDG_FALLBACK"}

\* a finished run of main.py in which a DuckDuckGo search found the website
\* of one row, and another row was answered by SAM without a search
C12_Witness ==
    /\ script = "main"
    /\ epc = "done"
    /\ wrote
    /\ \E k \in 1..Len(calls) : calls[k].api = "ddg"
    /\ \E k \in 1..Len(updates) : updates[k].status = "FOUND_DDG_FALLBACK"
    /\ \E k \in 1..Len(updates) : updates[k].status \in {"FOUND", "API_ERROR"}

\* C13: a run processes and writes at most BATCH_SIZE rows (no row when
\* BATCH_SIZE is zero or negative).
C13_AtMostBatchSizeRows ==
    /\ processed <= Max(0, BATCH_SIZE)
    /\ Len(updates) <= Max(0, BATCH_SIZE)
    /\ wrote =>
          Cardinality({ r \in 1..Len(worksheet) : worksheet[r] # values[r] })
             <= Max(0, BATCH_SIZE)

\* C14: choose_best_candidate returns a non-empty website only if the
\* domain of that website is not blacklisted, its homepage check did not
\* flag it and its score is at least MIN_ACCEPT_SCORE; it is the
\* highest-scoring of the top 6 candidates that passes the homepage check;
\* and when that candidate is rejected as low confidence nothing is returned.
C14_ChosenIsBestAcceptable ==
    chpc = "returned" =>
       /\ ch_result.website # <<>> =>
             /\ ~is_blacklisted_ddg(
                    normalize_domain_from_anything(ch_result.website), ch_rules)
             /\ ch_result.k \in 1..Len(ch_top)
             /\ ch_result.k <= 6
             /\ ch_result.k \notin ch_flagged
             /\ ch_result.score >= ch_min
             /\ \A j \in 1..Len(ch_top) :
                   j \notin ch_flagged => ch_top[j].score <= ch_result.score
       /\ ch_result.debug = "low_confidence" => ch_result.website = <<>>

\* the Award IDs of a sequence of rows
AwardIds(rows) == { rows[i].award_id : i \in 1..Len(rows) }

PairwiseDistinctIds(rows) ==
    \A i, j \in 1..Len(rows) : rows[i].award_id = rows[j].award_id => i = j

\* a step that puts one more row on the list: the row's id was not known
\* before the step
NewRowIsNew(rows, rowsAfter, ids) ==
    rowsAfter # rows =>
        /\ Len(rowsAfter) = Len(rows) + 1
        /\ SubSeq(rowsAfter, 1, Len(rows)) = rows
        /\ rowsAfter[Len(rowsAfter)].award_id \notin ids

\* C15: in nyc_run and in la_run the set of known Award IDs starts as column
\* A of the worksheet and only grows; a row is put on rows_to_append only
\* when its Award ID is not in the set, and the ID is then in the set; the
\* rows appended to the worksheet are rows_to_append.  So no appended row
\* carries an Award ID column A had at the start of the run, and no two
\* appended rows share an Award ID.
C15_AppendedAwardIdsAreNew ==
    /\ [](/\ PairwiseDistinctIds(rows_to_append)
          /\ PairwiseDistinctIds(nyc_rows_to_append)
          /\ AwardIds(rows_to_append) \subseteq existing_ids
          /\ AwardIds(nyc_rows_to_append) \subseteq nyc_existing_ids
          /\ sheet \in {<<>>, rows_to_append}
          /\ nyc_sheet \in {<<>>, nyc_rows_to_append})
    /\ [][/\ existing_ids \subseteq existing_ids'
          /\ nyc_existing_ids \subseteq nyc_existing_ids'
          /\ NewRowIsNew(rows_to_append, rows_to_append', existing_ids)
          /\ NewRowIsNew(nyc_rows_to_append, nyc_rows_to_append',
                         nyc_existing_ids)]_vars

\* nyc_run has appended a row after skipping a filing whose id column A
\* had and a filing whose id an earlier row of the run carries
C15_Witness ==
    /\ npc = "done"
    /\ Len(nyc_sheet) = 1
    /\ <<"J1">> \in nyc_existing_ids
    /\ <<"J1">> \notin AwardIds(nyc_sheet)
    /\ c_with_award_id = 3
    /\ c_new_not_dupe = 1

\* C16: parse_date_flexible returns a date or None for every text and never
\* raises, texts whose month or day is out of range included.
C16_ParseDateNeverRaises ==
    /\ pdpc # "raised"
    /\ pdpc = "returned" => pd_result.kind \in {"date", "None"}

\* the values infer_naics looks at: the filing status, the permit status,
\* the permit's work type (work_type, or work_permit when that is blank) and
\* the five work-type columns of the job filing
SignalValues(job, permit) ==
    LET p  == IF permit = NoPermit THEN Permit(<<>>, <<>>, <<>>) ELSE permit
        wt == IF Strip(p.work_type) # <<>> THEN p.work_type ELSE p.work_permit
    IN  { job.filing_status, p.permit_status, wt, job.plumbing_work_type,
          job.sprinkler_work_type, job.mechanical_systems_work_type_,
          job.boiler_equipment_work_type_, job.structural_work_type_ }

\* one of the keywords occurs in one of the values, whatever the case
Occurs(kws, job, permit) ==
    \E v \in SignalValues(job, permit) :
        \E kw \in kws : \E i \in 1..Len(v) : Lower(<<v[i]>>) = <<kw>>

ElectricalWords == {"elect"}

TradeWords == {"plumb", "sprink", "hvac", "mechanic", "boiler"}

StructuralWords == {"steel", "struct", "precast"}

HighwayWords == {"bridge", "highway", "street", "road"}

\* C17: infer_naics returns a member of ALLOWED_NAICS; an electrical keyword
\* gives 238210; otherwise a plumbing, sprinkler, HVAC, mechanical or boiler
\* keyword gives 238220; otherwise a steel, structural or precast keyword
\* gives 238120; otherwise a bridge, highway, street or road keyword gives
\* 237310; 236220 is returned exactly when no keyword occurs.
C17_NaicsByKeywordPrecedence ==
    njpc = "returned" =>
        LET e == Occurs(ElectricalWords, nj_job, nj_permit)
            t == Occurs(TradeWords, nj_job, nj_permit)
            s == Occurs(StructuralWords, nj_job, nj_permit)
            h == Occurs(HighwayWords, nj_job, nj_permit)
        IN  /\ nj_naics \in ALLOWED_NAICS
            /\ e => nj_naics = "238210"
            /\ (~e /\ t) => nj_naics = "238220"
            /\ (~e /\ ~t /\ s) => nj_naics = "238120"
            /\ (~e /\ ~t /\ ~s /\ h) => nj_naics = "237310"
            /\ (nj_naics = "236220") <=> ~(e \/ t \/ s \/ h)

\* a filing with a keyword of each of the four groups was classified
C17_Witness ==
    /\ njpc = "returned"
    /\ nj_naics = "238210"
    /\ Occurs(ElectricalWords, nj_job, nj_permit)
    /\ Occurs(TradeWords, nj_job, nj_permit)
    /\ Occurs(StructuralWords, nj_job, nj_permit)
    /\ Occurs(HighwayWords, nj_job, nj_permit)

\* a cell is blank: nothing but white space
BlankCell(c) == \A i \in 1..Len(c) : c[i] \in Whitespace

\* row_type is COMPANY, whatever its case and the blanks around it
IsCompanyType(c) ==
    \E pre, post \in 0..Len(c) :
        /\ pre + post + 1 = Len(c)
        /\ \A i \in 1..pre : c[i] \in Whitespace
        /\ \A i \in (pre + 2)..Len(c) : c[i] \in Whitespace
        /\ c[pre + 1] \in {"COMPANY", "company"}

\* a row the run may write to: a company row with a name and no website
RowToEnrich(row) ==
    IsCompanyType(row.J) /\ ~BlankCell(row.A) /\ BlankCell(row.L)

\* the columns a script writes: L:M (main.py), L and O:P (ddg_fallback.py)
OutputColumns(s) == IF s = "main" THEN {"L", "M"} ELSE {"L", "O", "P"}

\* C18: main.py and ddg_fallback.py change nothing but the output cells of
\* the rows that in the values read at the start are company rows with a
\* name and a blank website in column L; with no such row the sheet is
\* not written.
C18_WritesOnlyEligibleOutputCells ==
    script \in {"main", "ddg"} =>
        /\ Len(worksheet) = Len(values)
        /\ \A i \in 1..Len(values) : \A col \in DOMAIN values[i] :
              worksheet[i][col] # values[i][col] =>
                  /\ i >= 2
                  /\ RowToEnrich(values[i])
                  /\ col \in OutputColumns(script)
        /\ wrote => \E i \in 2..Len(values) : RowToEnrich(values[i])

\* main.py has written a website and a status to one row and has left
\* alone a row that has a website and a row that is not a company row
C18_Witness ==
    /\ script = "main"
    /\ epc = "done"
    /\ wrote
    /\ \E i, j, k \in 2..Len(values) :
          /\ worksheet[i].L # values[i].L
          /\ worksheet[i].M # values[i].M
          /\ ~BlankCell(values[j].L) /\ worksheet[j] = values[j]
          /\ ~IsCompanyType(values[k].J) /\ worksheet[k] = values[k]

\* the places of main inside the Recent fallback (lines 814-941)
RecentPlaces == {"recent_goto", "recent_scan", "recent_check", "recent_rows"}

\* the Advanced Search raised, or its exports held no row at all
AdvancedFailedOrEmpty == err # "" \/ all_rows = <<>>

\* the mode every row of the list was produced in, if there is one
AllFrom(rows, source) == \A i \in 1..Len(rows) : rows[i].data_source = source

\* C19: the rows of a run of la_run.main all come from one mode; the Recent
\* fallback runs exactly when the Advanced Search raised or returned zero
\* rows in total, the CSV rows are used exactly when it did neither; when
\* the Recent fallback collects no detail URL the run ends with the
\* RuntimeError and nothing is appended to the sheet.
C19_OneModePerRun ==
    /\ AllFrom(rows_to_append, "adv") \/ AllFrom(rows_to_append, "recent")
    /\ sheet \in {<<>>, rows_to_append}
    /\ pc \in RecentPlaces => AdvancedFailedOrEmpty
    /\ pc = "adv_rows" => ~AdvancedFailedOrEmpty
    /\ pc \in {"adv_rows", "write", "done", "failed"} \cup RecentPlaces =>
          IF AdvancedFailedOrEmpty
          THEN AllFrom(rows_to_append, "recent")
          ELSE AllFrom(rows_to_append, "adv")
    /\ (pc \in {"recent_rows", "write", "done"} /\ AdvancedFailedOrEmpty) =>
          detail_urls # <<>>
    /\ pc = "failed" => sheet = <<>>

\* the Advanced Search raised after an export with rows, and the run has
\* appended rows of the Recent fallback
C19_Witness ==
    /\ pc = "done"
    /\ err # ""
    /\ all_rows # <<>>
    /\ sheet # <<>>
    /\ AllFrom(sheet, "recent")

\* C20: in both modes of la_run.main no appended row has a received date
\* that parses to a date before SINCE_DATE, and none has a non-empty
\* document type that is not one of DOC_TYPES (whatever its case).
C20_AppendedRowsPassFilters ==
    \A i \in 1..Len(rows_to_append) :
        /\ parse_date_flexible(rows_to_append[i].submitted) # "before"
        /\ \/ rows_to_append[i].stage = <<>>
           \/ Upper(Strip(rows_to_append[i].stage)) \in DocTypeSet

====
